---- MODULE Spec2Model ----
(***************************************************************************)
(* Crom front end: lexer (ScanToken), Pratt parser with its scope stack    *)
(* and symbol tables (ParserBuildAST), and the Value operations.           *)
(*                                                                         *)
(* The parser is a recursive-descent program: every parse function is an   *)
(* operator from the parser state to the parser state and the AST node it  *)
(* returns.  One iteration of the loop of ParserBuildAST is one action.    *)
(* The Value operations are applied by actions of their own                *)
(* specification, SpecValue.                                               *)
(***************************************************************************)
EXTENDS Integers, Sequences, FiniteSets, TLC

VARIABLES
  source,   \* the NUL-terminated text handed to InitLexer, as a sequence of characters
  pc,       \* where the driver is: "start", "parse", "parsed", "checked", "aborted", "value"
  P,        \* Lexer, Parser, Scope, shadowed_symbol_table, heap of symbol tables, diagnostics
  root,     \* the statements hung on the START_NODE spine by ParserBuildAST
  operands, \* the Values a Value operation is applied to
  applied,  \* the Value operation applied last
  returned  \* what it returned

vars == <<source, pc, P, root, operands, applied, returned>>

(***************************************************************************)
(* Bind(v, K) is K(v) with v computed once, before K is entered: the       *)
(* sequencing of one C statement after another.                            *)
(***************************************************************************)
Bind(v, K(_)) == CHOOSE r \in { K(x) : x \in {v} } : TRUE

(***************************************************************************)
(* Characters                                                              *)
(***************************************************************************)
NUL == "NUL"

\* the grave accent, which cannot be written in a string here
GRAVE == "GRAVE"

Lower == {"a","b","c","d","e","f","g","h","i","j","k","l","m","n","o","p","q","r","s","t","u","v","w","x","y","z"}

Upper == {"A","B","C","D","E","F","G","H","I","J","K","L","M","N","O","P","Q","R","S","T","U","V","W","X","Y","Z"}

IsAlpha(c) == c \in Lower \/ c \in Upper \/ c = "_"

Digits == {"0","1","2","3","4","5","6","7","8","9"}

IsNumber(c) == c \in Digits

IsHex(c) == IsNumber(c) \/ c \in {"A","B","C","D","E","F","G","H"}
                        \/ c \in {"a","b","c","d","e","f","g","h"}

(***************************************************************************)
(* Lexer.  Lexer.start and Lexer.end are indices into the text; the NUL    *)
(* sits at index Len(source) + 1.  The field oob records that Lexer.end    *)
(* has been moved past the NUL: what lies there is not the program's to    *)
(* read, and every lexer loop is cut off once it is set.                   *)
(***************************************************************************)
Mem(i) == IF i >= 1 /\ i <= Len(source) THEN source[i] ELSE NUL

InitLexer == [start |-> 1, end |-> 1, current_line |-> 1, oob |-> FALSE]

LexemeLength(lx) == lx.end - lx.start

AtEOF(lx) == Mem(lx.start) = NUL

Peek(lx) == Mem(lx.end)

PeekNext(lx) == Mem(lx.end + 1)

LexAdvance(lx) == [lx EXCEPT !.end = @ + 1, !.oob = @ \/ lx.end > Len(source)]

LexMatch(lx, c) == IF Peek(lx) # c THEN [lx |-> lx, ok |-> FALSE]
                   ELSE [lx |-> LexAdvance(lx), ok |-> TRUE]

\* while (stop-condition does not hold) Advance();  the condition is a set of
\* characters at Peek() that keep the loop going.  The terminating NUL is in
\* none of these sets, so the loop ends at the first character outside the
\* set, at the NUL at the latest.
AdvanceWhile(lx, keep) ==
  IF lx.oob THEN lx
  ELSE [lx EXCEPT !.end = CHOOSE e \in lx.end..(Len(source) + 1) :
                            /\ Mem(e) \notin keep
                            /\ \A i \in lx.end..(e - 1) : Mem(i) \in keep]

RECURSIVE SkipComment(_)
SkipComment(lx) ==
  IF lx.oob THEN lx
  ELSE IF Peek(lx) # "\n" /\ ~AtEOF(lx)
    THEN Bind(LexAdvance(lx), LAMBDA l2 : SkipComment(l2))
  ELSE lx

RECURSIVE SkipWhitespace(_)
SkipWhitespace(lx) ==
  LET c == Peek(lx) IN
  IF lx.oob THEN lx
  ELSE IF c \in {" ", "\r", "\t"}
    THEN Bind(LexAdvance(lx), LAMBDA l2 : SkipWhitespace(l2))
  ELSE IF c = "\n"
    THEN Bind(LexAdvance([lx EXCEPT !.current_line = @ + 1]), LAMBDA l2 : SkipWhitespace(l2))
  ELSE IF c = "/" /\ PeekNext(lx) = "/"
    THEN Bind(SkipComment(lx), LAMBDA l2 : SkipWhitespace(l2))
  ELSE lx

Lexeme(lx) == [i \in 1..(lx.end - lx.start) |-> Mem(lx.start + i - 1)]

MakeErrorToken(lx, msg) ==
  [type |-> "ERROR", lexeme |-> <<msg>>, pos |-> 0, on_line |-> lx.current_line]

MakeToken(lx, type) ==
  [type |-> type, lexeme |-> Lexeme(lx), pos |-> lx.start, on_line |-> lx.current_line]

ScannedPastToken(lx, tok) == [lx |-> LexAdvance(lx), tok |-> tok]

Scanned(lx, tok) == [lx |-> lx, tok |-> tok]

HexDigits == {c \in Lower \cup Upper \cup Digits : IsHex(c)}

Hex(lx0) ==
  Bind(LexAdvance(lx0), LAMBDA l1 :
  Bind(AdvanceWhile(l1, HexDigits), LAMBDA lx :
    IF LexemeLength(lx) > 2 + 16
      THEN Scanned(lx, MakeErrorToken(lx, "Hex Constant cannot be more than 64 bits wide"))
      ELSE Scanned(lx, MakeToken(lx, "HEX_CONSTANT"))))

LexBinary(lx0) ==
  Bind(LexAdvance(lx0), LAMBDA l1 :
  Bind(AdvanceWhile(l1, {"0", "1"}), LAMBDA lx :
    IF Peek(lx) # "'"
      THEN Scanned(lx, MakeErrorToken(lx, "Expected \"'\" after Binary Constant"))
      ELSE Bind(LexAdvance(lx), LAMBDA l2 :
             IF LexemeLength(l2) > 3 + 64
               THEN Scanned(l2, MakeErrorToken(l2, "Binary Constant cannot be more than 64 bits wide"))
               ELSE Scanned(l2, MakeToken(l2, "BINARY_CONSTANT")))))

Number(lx0) ==
  Bind(AdvanceWhile(lx0, Digits), LAMBDA lx :
    IF Peek(lx) = "." /\ IsNumber(PeekNext(lx))
      THEN Bind(LexAdvance(lx), LAMBDA l1 :
           Bind(AdvanceWhile(l1, Digits), LAMBDA l2 :
             Scanned(l2, MakeToken(l2, "FLOAT_CONSTANT"))))
      ELSE Scanned(lx, MakeToken(lx, "INT_CONSTANT")))

Char(lx0) ==
  Bind(LexAdvance(lx0), LAMBDA l1 :
  Bind(LexAdvance(l1), LAMBDA lx :
    Scanned(lx, MakeToken(lx, "CHAR_CONSTANT"))))

RECURSIVE String(_)
String(lx) ==
  IF lx.oob THEN Scanned(lx, MakeToken(lx, "STRING_LITERAL"))
  ELSE IF Peek(lx) # "\"" /\ ~AtEOF(lx)
    THEN IF Peek(lx) = "\n"
           THEN Scanned(lx, MakeErrorToken(lx, "Multi-line strings are not allowed"))
           ELSE Bind(LexAdvance(lx), LAMBDA l2 : String(l2))
  ELSE IF AtEOF(lx) THEN Scanned(lx, MakeErrorToken(lx, "Unterminated string."))
  ELSE Bind(LexAdvance(lx), LAMBDA l2 : Scanned(l2, MakeToken(l2, "STRING_LITERAL")))

Keywords ==
  { <<<<"i","8">>, "I8">>, <<<<"i","1","6">>, "I16">>, <<<<"i","3","2">>, "I32">>,
    <<<<"i","6","4">>, "I64">>,
    <<<<"u","8">>, "U8">>, <<<<"u","1","6">>, "U16">>, <<<<"u","3","2">>, "U32">>,
    <<<<"u","6","4">>, "U64">>,
    <<<<"f","3","2">>, "F32">>, <<<<"f","6","4">>, "F64">>,
    <<<<"c","h","a","r">>, "CHAR">>, <<<<"s","t","r","i","n","g">>, "STRING">>,
    <<<<"b","o","o","l">>, "BOOL">>, <<<<"v","o","i","d">>, "VOID">>,
    <<<<"e","n","u","m">>, "ENUM">>, <<<<"s","t","r","u","c","t">>, "STRUCT">>,
    <<<<"i","f">>, "IF">>, <<<<"e","l","s","e">>, "ELSE">>,
    <<<<"w","h","i","l","e">>, "WHILE">>, <<<<"f","o","r">>, "FOR">>,
    <<<<"b","r","e","a","k">>, "BREAK">>,
    <<<<"c","o","n","t","i","n","u","e">>, "CONTINUE">>,
    <<<<"r","e","t","u","r","n">>, "RETURN">> }

IdentifierType(lx) ==
  LET hit == {k \in Keywords : k[1] = Lexeme(lx)}
  IN IF hit = {} THEN "IDENTIFIER" ELSE (CHOOSE k \in hit : TRUE)[2]

IdentifierChars == Lower \cup Upper \cup {"_"} \cup Digits

LexIdentifier(lx0) ==
  Bind(AdvanceWhile(lx0, IdentifierChars), LAMBDA lx :
    Scanned(lx, MakeToken(lx, IdentifierType(lx))))

\* MakeToken(Match(c) ? yes : no)
MatchThen(lx, c, yes, no) ==
  Bind(LexMatch(lx, c), LAMBDA m :
    Scanned(m.lx, MakeToken(m.lx, IF m.ok THEN yes ELSE no)))

Punctuation(lx, c) ==
  CASE c = "{" -> Scanned(lx, MakeToken(lx, "LCURLY"))
    [] c = "}" -> Scanned(lx, MakeToken(lx, "RCURLY"))
    [] c = "(" -> Scanned(lx, MakeToken(lx, "LPAREN"))
    [] c = ")" -> Scanned(lx, MakeToken(lx, "RPAREN"))
    [] c = "[" -> Scanned(lx, MakeToken(lx, "LBRACKET"))
    [] c = "]" -> Scanned(lx, MakeToken(lx, "RBRACKET"))
    [] c = "." -> Scanned(lx, MakeToken(lx, "COMMA"))
    [] c = "," -> Scanned(lx, MakeToken(lx, "COMMA"))
    [] c = ":" -> Bind(LexMatch(lx, ":"), LAMBDA m :
                    IF m.ok THEN Scanned(m.lx, MakeToken(m.lx, "COLON_SEPARATOR"))
                            ELSE Scanned(m.lx, MakeErrorToken(m.lx, "Invalid token ':'")))
    [] c = ";" -> Scanned(lx, MakeToken(lx, "SEMICOLON"))
    [] c = "+" -> IF Peek(lx) = "=" THEN MatchThen(lx, "=", "PLUS_EQUALS", "PLUS")
                  ELSE MatchThen(lx, "+", "PLUS_PLUS", "PLUS")
    [] c = "-" -> IF Peek(lx) = "=" THEN MatchThen(lx, "=", "MINUS_EQUALS", "MINUS")
                  ELSE MatchThen(lx, "+", "MINUS_MINUS", "MINUS")
    [] c = "*" -> MatchThen(lx, "=", "TIMES_EQUALS", "ASTERISK")
    [] c = "/" -> MatchThen(lx, "=", "DIVIDE_EQUALS", "DIVIDE")
    [] c = "%" -> MatchThen(lx, "=", "MODULO_EQUALS", "MODULO")
    [] c = GRAVE -> Scanned(lx, MakeToken(lx, "TILDE"))
    [] c = "^" -> MatchThen(lx, "=", "XOR_EQUALS", "CIRCUMFLEX")
    [] c = "&" -> MatchThen(lx, "=", "AND_EQUALS", "AMPERSAND")
    [] c = "|" -> MatchThen(lx, "=", "OR_EQUALS", "PIPE")
    [] c = "!" -> MatchThen(lx, "=", "NOT_EQUALS", "EXCLAM")
    [] c = "?" -> Scanned(lx, MakeToken(lx, "QUESTIONMARK"))
    [] c = "<" -> Bind(LexMatch(lx, "<"), LAMBDA m :
                    IF m.ok THEN MatchThen(m.lx, "=", "LEFT_SHIFT_EQUALS", "LEFT_SHIFT")
                            ELSE Scanned(lx, MakeToken(lx, "LESS_THAN")))
    [] c = ">" -> Bind(LexMatch(lx, ">"), LAMBDA m :
                    IF m.ok THEN MatchThen(m.lx, "=", "RIGHT_SHIFT_EQUALS", "RIGHT_SHIFT")
                            ELSE Scanned(lx, MakeToken(lx, "GREATER_THAN")))
    [] c = "=" -> Scanned(lx, MakeToken(lx, "EQUALS"))
    [] c = "'" -> Char(lx)
    [] c = "\"" -> String(lx)
    [] OTHER -> Scanned(lx, MakeErrorToken(lx, "Unexpected token"))

ScanToken(lx0) ==
  Bind(SkipWhitespace(lx0), LAMBDA ws :
  Bind([ws EXCEPT !.start = ws.end], LAMBDA l1 :
    IF AtEOF(l1) THEN Scanned(l1, MakeToken(l1, "TOKEN_EOF"))
    ELSE Bind(LexAdvance(l1), LAMBDA lx :
           LET c == Mem(l1.end)
           IN IF c = "0" /\ Peek(lx) = "x" THEN Hex(lx)
              ELSE IF IsNumber(c) THEN Number(lx)
              ELSE IF c = "b" /\ Peek(lx) = "'" THEN LexBinary(lx)
              ELSE IF IsAlpha(c) THEN LexIdentifier(lx)
              ELSE Punctuation(lx, c))))

(***************************************************************************)
(* Tokens as the parser names them.  ScanToken names the literal kinds     *)
(* ..._CONSTANT and the operator kinds by their character (EXCLAM, PIPE);  *)
(* the parser's Rules table names them ..._LITERAL and by their meaning.   *)
(***************************************************************************)
TokenType(t) ==
  CASE t = "INT_CONSTANT"       -> "INT_LITERAL"
    [] t = "FLOAT_CONSTANT"     -> "FLOAT_LITERAL"
    [] t = "HEX_CONSTANT"       -> "HEX_LITERAL"
    [] t = "BINARY_CONSTANT"    -> "BINARY_LITERAL"
    [] t = "CHAR_CONSTANT"      -> "CHAR_LITERAL"
    [] t = "EXCLAM"             -> "LOGICAL_NOT"
    [] t = "TILDE"              -> "BITWISE_NOT"
    [] t = "CIRCUMFLEX"         -> "BITWISE_XOR"
    [] t = "AMPERSAND"          -> "BITWISE_AND"
    [] t = "PIPE"               -> "BITWISE_OR"
    [] t = "LEFT_SHIFT"         -> "BITWISE_LEFT_SHIFT"
    [] t = "RIGHT_SHIFT"        -> "BITWISE_RIGHT_SHIFT"
    [] t = "QUESTIONMARK"       -> "QUESTION_MARK"
    [] t = "NOT_EQUALS"         -> "LOGICAL_NOT_EQUALS"
    [] t = "XOR_EQUALS"         -> "BITWISE_XOR_EQUALS"
    [] t = "AND_EQUALS"         -> "BITWISE_AND_EQUALS"
    [] t = "OR_EQUALS"          -> "BITWISE_OR_EQUALS"
    [] t = "LEFT_SHIFT_EQUALS"  -> "BITWISE_LEFT_SHIFT_EQUALS"
    [] t = "RIGHT_SHIFT_EQUALS" -> "BITWISE_RIGHT_SHIFT_EQUALS"
    [] OTHER -> t

ZeroToken == [type |-> "UNINITIALIZED", lexeme |-> <<>>, pos |-> 0, on_line |-> 0]

TypeKeywords == {"I8","I16","I32","I64","U8","U16","U32","U64","F32","F64",
                 "BOOL","STRUCT","CHAR","STRING"}

LiteralTypes == {"BINARY_LITERAL","HEX_LITERAL","INT_LITERAL","FLOAT_LITERAL",
                 "ENUM_LITERAL","CHAR_LITERAL","BOOL_LITERAL","STRING_LITERAL"}

TerseAssignments == {"PLUS_EQUALS","MINUS_EQUALS","TIMES_EQUALS","DIVIDE_EQUALS",
                     "MODULO_EQUALS","LOGICAL_NOT_EQUALS","BITWISE_XOR_EQUALS",
                     "BITWISE_AND_EQUALS","BITWISE_OR_EQUALS","BITWISE_NOT_EQUALS",
                     "BITWISE_LEFT_SHIFT_EQUALS","BITWISE_RIGHT_SHIFT_EQUALS"}

(***************************************************************************)
(* Precedence and the Rules table                                          *)
(***************************************************************************)
PREC_EOF == -1

NO_PRECEDENCE == 0

ASSIGNMENT == 1

TERNARY_CONDITIONAL == 2

LOGICAL == 3

BITWISE == 4

TERM == 5

FACTOR == 6

UNARY == 7

PREFIX_INCREMENT == 8

ARRAY_SUBSCRIPTING == 9

Rule(p, i, prec) == [prefix |-> p, infix |-> i, precedence |-> prec]

Rules(t) ==
  CASE t \in {"I8","I16","I32","I64","U8","U16","U32","U64","F32","F64",
              "CHAR","STRING","BOOL","VOID"} -> Rule("Type", "NULL", NO_PRECEDENCE)
    [] t = "ENUM"       -> Rule("Enum", "NULL", NO_PRECEDENCE)
    [] t = "STRUCT"     -> Rule("Struct", "NULL", NO_PRECEDENCE)
    [] t = "BREAK"      -> Rule("Break", "NULL", NO_PRECEDENCE)
    [] t = "CONTINUE"   -> Rule("Continue", "NULL", NO_PRECEDENCE)
    [] t = "RETURN"     -> Rule("Return", "NULL", NO_PRECEDENCE)
    [] t = "IDENTIFIER" -> Rule("Identifier", "NULL", NO_PRECEDENCE)
    [] t \in LiteralTypes -> Rule("Literal", "NULL", NO_PRECEDENCE)
    [] t = "LPAREN"     -> Rule("Parens", "NULL", NO_PRECEDENCE)
    [] t = "LBRACKET"   -> Rule("NULL", "ArraySubscripting", ARRAY_SUBSCRIPTING)
    [] t \in {"EQUALITY","LOGICAL_AND","LOGICAL_OR","LESS_THAN","GREATER_THAN"}
                        -> Rule("NULL", "Binary", LOGICAL)
    [] t = "LOGICAL_NOT" -> Rule("Unary", "NULL", LOGICAL)
    [] t = "PLUS"       -> Rule("NULL", "Binary", TERM)
    [] t = "MINUS"      -> Rule("Unary", "Binary", TERM)
    [] t \in {"ASTERISK","DIVIDE","MODULO"} -> Rule("NULL", "Binary", FACTOR)
    [] t \in {"PLUS_PLUS","MINUS_MINUS"} -> Rule("Unary", "NULL", PREFIX_INCREMENT)
    [] t = "BITWISE_NOT" -> Rule("Unary", "NULL", BITWISE)
    [] t \in {"BITWISE_AND","BITWISE_XOR","BITWISE_OR","BITWISE_LEFT_SHIFT",
              "BITWISE_RIGHT_SHIFT"} -> Rule("NULL", "Binary", BITWISE)
    [] t = "TOKEN_EOF"  -> Rule("NULL", "NULL", PREC_EOF)
    [] OTHER            -> Rule("NULL", "NULL", NO_PRECEDENCE)

(***************************************************************************)
(* Annotations                                                             *)
(***************************************************************************)
Annotation(ost, act, width, signed) ==
  [ostensible_type |-> ost, actual_type |-> act, is_signed |-> signed,
   bit_width |-> width, is_array |-> FALSE, array_size |-> 0,
   is_function |-> FALSE, declared_on_line |-> 0]

NoAnnotation == Annotation("OST_UNKNOWN", "ACT_NOT_APPLICABLE", 0, FALSE)

AnnotateType(t) ==
  CASE t = "I8"  -> Annotation("OST_INT", "ACT_INT", 8, TRUE)
    [] t = "I16" -> Annotation("OST_INT", "ACT_INT", 16, TRUE)
    [] t = "I32" -> Annotation("OST_INT", "ACT_INT", 32, TRUE)
    [] t = "I64" -> Annotation("OST_INT", "ACT_INT", 64, TRUE)
    [] t = "U8"  -> Annotation("OST_INT", "ACT_INT", 8, FALSE)
    [] t = "U16" -> Annotation("OST_INT", "ACT_INT", 16, FALSE)
    [] t = "U32" -> Annotation("OST_INT", "ACT_INT", 32, FALSE)
    [] t = "U64" -> Annotation("OST_INT", "ACT_INT", 64, FALSE)
    [] t = "F32" -> Annotation("OST_FLOAT", "ACT_FLOAT", 32, TRUE)
    [] t = "F64" -> Annotation("OST_FLOAT", "ACT_FLOAT", 64, TRUE)
    [] t = "BOOL" -> Annotation("OST_BOOL", "ACT_BOOL", 0, FALSE)
    [] t = "CHAR" -> Annotation("OST_CHAR", "ACT_CHAR", 8, FALSE)
    [] t = "STRING" -> Annotation("OST_STRING", "ACT_STRING", 0, FALSE)
    [] t = "VOID" -> Annotation("OST_VOID", "ACT_VOID", 0, FALSE)
    [] t = "ENUM" -> Annotation("OST_ENUM", "ACT_ENUM", 0, FALSE)
    [] t = "STRUCT" -> Annotation("OST_STRUCT", "ACT_STRUCT", 0, FALSE)
    [] t = "INT_LITERAL" -> Annotation("OST_INT", "ACT_INT", 64, TRUE)
    [] t \in {"HEX_LITERAL", "BINARY_LITERAL"} -> Annotation("OST_INT", "ACT_INT", 64, FALSE)
    [] t = "FLOAT_LITERAL" -> Annotation("OST_FLOAT", "ACT_FLOAT", 64, TRUE)
    [] t = "ENUM_LITERAL" -> Annotation("OST_ENUM", "ACT_INT", 64, TRUE)
    [] t = "CHAR_LITERAL" -> Annotation("OST_CHAR", "ACT_CHAR", 8, FALSE)
    [] t = "BOOL_LITERAL" -> Annotation("OST_BOOL", "ACT_BOOL", 0, FALSE)
    [] t = "STRING_LITERAL" -> Annotation("OST_STRING", "ACT_STRING", 0, FALSE)
    [] OTHER -> NoAnnotation

FunctionAnnotation(return_type) == [AnnotateType(return_type) EXCEPT !.is_function = TRUE]

ArrayAnnotation(array_type, array_size) ==
  [AnnotateType(array_type) EXCEPT !.is_array = TRUE, !.array_size = array_size]

(***************************************************************************)
(* AST nodes                                                               *)
(***************************************************************************)
NullNode ==
  [type |-> "NULL", arity |-> 0, token |-> ZeroToken, annotation |-> NoAnnotation,
   left |-> <<>>, middle |-> <<>>, right |-> <<>>]

IsNull(n) == n.type = "NULL"

Present(n) == IF IsNull(n) THEN 0 ELSE 1

NewNodeFromToken(type, left, middle, right, token, annotation) ==
  [type |-> type, arity |-> Present(left) + Present(middle) + Present(right),
   token |-> token, annotation |-> annotation,
   left |-> left, middle |-> middle, right |-> right]

NewNode(type, left, middle, right, annotation) ==
  NewNodeFromToken(type, left, middle, right, ZeroToken, annotation)

NewNodeFromSymbol(type, left, middle, right, symbol) ==
  NewNodeFromToken(type, left, middle, right, symbol.token, symbol.annotation)

NewNodeWithArity(type, left, middle, right, arity, annotation) ==
  [NewNode(type, left, middle, right, annotation) EXCEPT !.arity = arity]

BINARY_ARITY == 2

EmptyChain == NewNodeWithArity("CHAIN_NODE", NullNode, NullNode, NullNode, BINARY_ARITY, NoAnnotation)

(***************************************************************************)
(* Symbols and symbol tables.  A table is a function from lexemes to       *)
(* symbols; tables live in P.heap and are named by their index there       *)
(* (0 is the NULL pointer), so that shadowed_symbol_table and a symbol's   *)
(* struct_fields / fn_params can point at a table.                         *)
(***************************************************************************)
EmptyTable == [x \in {} |-> NullNode]

NewSymbol(token, annotation, declaration_type) ==
  [token |-> token, annotation |-> annotation, declaration_type |-> declaration_type,
   struct_fields |-> 0, fn_params |-> 0]

SymbolNotFound ==
  NewSymbol([type |-> "ERROR", lexeme |-> <<"No symbol found in Symbol Table">>,
             pos |-> 0, on_line |-> 1], NoAnnotation, "DECL_NONE")

IsIn(ps, st, token) == st # 0 /\ token.lexeme \in DOMAIN ps.heap[st]

RetrieveFrom(ps, st, token) ==
  IF IsIn(ps, st, token) THEN ps.heap[st][token.lexeme] ELSE SymbolNotFound

\* ERROR_AND_EXIT: the process ends here; nothing after it changes the state
ErrorAndExit(ps, msg) ==
  IF ps.fatal # "" THEN ps ELSE [ps EXCEPT !.fatal = msg]

\* insert or overwrite; the entry stays pinned to its declaring token and line,
\* and keeps the tables hung on it
AddTo(ps, st, s) ==
  IF ps.fatal # "" THEN [P |-> ps, sym |-> s]
  ELSE IF st = 0 THEN [P |-> ErrorAndExit(ps, "NULL_DEREFERENCE"), sym |-> s]
  ELSE IF IsIn(ps, st, s.token)
    THEN LET old == ps.heap[st][s.token.lexeme]
             stored == [s EXCEPT !.token = old.token,
                                 !.annotation.declared_on_line = old.annotation.declared_on_line,
                                 !.struct_fields = old.struct_fields,
                                 !.fn_params = old.fn_params]
         IN [P |-> [ps EXCEPT !.heap[st] = (s.token.lexeme :> stored) @@ @], sym |-> stored]
    ELSE LET n == Len(ps.heap)
             stored == [s EXCEPT !.annotation.declared_on_line = s.token.on_line,
                                 !.struct_fields = n + 1,
                                 !.fn_params = n + 2]
         IN [P |-> [ps EXCEPT !.heap = [@ EXCEPT ![st] = (s.token.lexeme :> stored) @@ @]
                                          \o <<EmptyTable, EmptyTable>>],
             sym |-> stored]

RegisterFnParam(ps, st, fn_identifier, param) ==
  IF IsIn(ps, st, fn_identifier.token)
    THEN AddTo(ps, RetrieveFrom(ps, st, fn_identifier.token).fn_params, param).P
    ELSE ps

(***************************************************************************)
(* Diagnostics                                                             *)
(***************************************************************************)
ErrorAtToken(ps, token, msg) ==
  IF ps.fatal # "" THEN ps
  ELSE [ps EXCEPT !.errors = Append(@, [msg |-> msg, token |-> token,
                                        original |-> ZeroToken, line |-> 0])]

RedeclarationAtToken(ps, token, original, msg, line) ==
  IF ps.fatal # "" THEN ps
  ELSE [ps EXCEPT !.errors = Append(@, [msg |-> msg, token |-> token,
                                        original |-> original, line |-> line])]

(***************************************************************************)
(* Scope stack.  P.locals[d + 1] is Scope.locals[d].                       *)
(***************************************************************************)
ScopeSlots == 10

BeginScope(ps) ==
  IF ps.fatal # "" THEN ps
  ELSE IF ps.depth + 1 >= ScopeSlots
    \* the store to Scope.locals[10] is outside the array
    THEN ErrorAndExit(ps, "UNDEFINED_BEHAVIOUR Scope.locals overrun")
  ELSE [ps EXCEPT !.depth = @ + 1,
                  !.heap = Append(@, EmptyTable),
                  !.locals = Append(@, Len(ps.heap) + 1)]

\* EndScope without its Scope.depth--
EndScopeKeepingDepth(ps) == ps

EndScope(ps) ==
  IF ps.fatal # "" THEN ps
  ELSE IF ps.depth = 0 THEN ErrorAndExit(ps, "How'd you end scope at depth 0?")
  ELSE [ps EXCEPT !.heap[ps.locals[ps.depth + 1]] = EmptyTable,
                  !.freed = @ \cup {ps.locals[ps.depth + 1]},
                  !.locals = SubSeq(@, 1, ps.depth),
                  !.depth = @ - 1]

ShadowSymbolTable(ps, st) ==
  IF ps.fatal # "" THEN ps ELSE [ps EXCEPT !.shadowed_symbol_table = st]

RECURSIVE OuterScopeFrom(_, _, _)
OuterScopeFrom(ps, i, t) ==
  IF i < 0 THEN SymbolNotFound
  ELSE LET found == RetrieveFrom(ps, ps.locals[i + 1], t)
       IN IF found.token.type # "ERROR" THEN found ELSE OuterScopeFrom(ps, i - 1, t)

ExistsInOuterScope(ps, t) == OuterScopeFrom(ps, ps.depth - 1, t)

SYMBOL_TABLE(ps) ==
  IF ps.shadowed_symbol_table # 0 THEN ps.shadowed_symbol_table
  ELSE ps.locals[ps.depth + 1]

(***************************************************************************)
(* Token plumbing of the parser                                            *)
(***************************************************************************)
Advance(ps) ==
  IF ps.fatal # "" THEN ps
  ELSE Bind(ScanToken(ps.lexer), LAMBDA sc :
       Bind([ps EXCEPT !.advances = @ + 1,
                       !.current = ps.next,
                       !.next = ps.after_next,
                       !.after_next = [sc.tok EXCEPT !.type = TokenType(@)],
                       !.lexer = sc.lx], LAMBDA q :
         IF q.next.type # "ERROR" THEN q
         ELSE ErrorAtToken(q, q.current, "Advance(): Error token encountered")))

NextTokenIs(ps, type) == ps.next.type = type

TokenAfterNextIs(ps, type) == ps.after_next.type = type

NextTokenIsAnyType(ps) == ps.next.type \in TypeKeywords

NextTokenIsLiteral(ps) == ps.next.type \in LiteralTypes

NextTokenIsTerseAssignment(ps) == ps.next.type \in TerseAssignments

Match(ps, type) ==
  IF ~NextTokenIs(ps, type) THEN [P |-> ps, ok |-> FALSE]
  ELSE [P |-> Advance(ps), ok |-> TRUE]

\* Consume, ConsumeAnyType, ConsumeAnyLiteral, ConsumeAnyTerseAssignment:
\* advance when the next token is one of types, else report msg at it
ConsumeAny(ps, types, msg) ==
  IF ps.next.type \in types THEN Advance(ps) ELSE ErrorAtToken(ps, ps.next, msg)

Consume(ps, type, msg) == ConsumeAny(ps, {type}, msg)

\* the file-scope objects of the parser before InitParser has run
Unstarted ==
  [lexer |-> InitLexer,
   current |-> ZeroToken, next |-> ZeroToken, after_next |-> ZeroToken,
   depth |-> 0, locals |-> <<1>>, heap |-> <<EmptyTable>>, freed |-> {},
   shadowed_symbol_table |-> 0,
   errors |-> <<>>, fatal |-> "",
   advances |-> 0, blocks |-> <<>>, open |-> <<>>, decls |-> <<>>, calls |-> <<>>,
   stmts |-> <<>>, idents |-> <<>>]

InitParser(ps) == Bind(Advance(ps), LAMBDA p1 : Advance(p1))

(***************************************************************************)
(* History kept beside the parser's own state, for stating properties:     *)
(* P.advances counts the calls of Advance; P.blocks lists every call of    *)
(* Block with the table that was current when it began, P.open is the      *)
(* stack of the calls still running, and P.decls lists the identifiers     *)
(* Type() has added, each with its table, whether the name was in that     *)
(* table already, and the innermost running Block; P.calls lists the calls *)
(* FunctionCall has parsed with the state of the callee's symbol then;     *)
(* P.stmts lists the calls of Statement that have returned, each with the  *)
(* shadowed table at its call and at its return and with                   *)
(* Scope.depth at its call and at its return; P.idents lists the calls of  *)
(* Identifier, each with its token, its can_assign, the type of the token  *)
(* that followed the identifier and the number of diagnostics before it.   *)
(***************************************************************************)
OpenBlock(ps, kind) ==
  IF ps.fatal # "" THEN ps
  ELSE [ps EXCEPT !.blocks = Append(@, [kind |-> kind, table |-> SYMBOL_TABLE(ps)]),
                  !.open = Append(@, Len(ps.blocks) + 1)]

CloseBlock(ps) ==
  IF ps.fatal # "" THEN ps ELSE [ps EXCEPT !.open = SubSeq(@, 1, Len(@) - 1)]

InnermostBlock(ps) == IF ps.open = <<>> THEN 0 ELSE ps.open[Len(ps.open)]

NoteDeclared(ps, token, st, existing) ==
  IF ps.fatal # "" THEN ps
  ELSE [ps EXCEPT !.decls = Append(@, [token |-> token, table |-> st, existing |-> existing,
                                       block |-> InnermostBlock(ps)])]

NoteStatement(ps, at, before, shadowed) ==
  IF ps.fatal # "" THEN ps
  ELSE [ps EXCEPT !.stmts = Append(@, [at |-> at, before |-> before, after |-> ps.depth,
                                       shadowed_before |-> shadowed,
                                       shadowed_after |-> ps.shadowed_symbol_table])]

\* the table in which Identifier()'s lookup finds the token: SYMBOL_TABLE(), or
\* failing that the nearest enclosing scope that has it; 0 when none has
ResolvedIn(ps, t) ==
  IF IsIn(ps, SYMBOL_TABLE(ps), t) THEN SYMBOL_TABLE(ps)
  ELSE LET outer == {i \in 0..(ps.depth - 1) : IsIn(ps, ps.locals[i + 1], t)}
       IN IF outer = {} THEN 0
          ELSE ps.locals[(CHOOSE i \in outer : \A j \in outer : j <= i) + 1]

NoteIdentifier(ps, can_assign) ==
  IF ps.fatal # "" THEN ps
  ELSE [ps EXCEPT !.idents = Append(@, [token |-> ps.current, can_assign |-> can_assign,
                                        next |-> ps.next.type, errors |-> Len(ps.errors),
                                        resolved |-> ResolvedIn(ps, ps.current)])]

NoteCall(ps, function_name) ==
  IF ps.fatal # "" THEN ps
  ELSE [ps EXCEPT !.calls = Append(@, [token |-> function_name,
                                       state |-> RetrieveFrom(ps, SYMBOL_TABLE(ps), function_name).declaration_type])]

(***************************************************************************)
(* strtol on a run of decimal digits.  The model's integers are 32 bits    *)
(* wide, so the comparison with LONG_MAX is made on the digits, and a      *)
(* value of ten or more digits below LONG_MAX is recorded as -1.           *)
(***************************************************************************)
RECURSIVE StripZeros(_)
StripZeros(d) == IF d # <<>> /\ Head(d) = "0" THEN StripZeros(Tail(d)) ELSE d

DigitValue(c) == CHOOSE n \in 0..9 : <<"0","1","2","3","4","5","6","7","8","9">>[n + 1] = c

RECURSIVE DecimalValue(_)
DecimalValue(d) ==
  IF d = <<>> THEN 0 ELSE 10 * DecimalValue(SubSeq(d, 1, Len(d) - 1)) + DigitValue(d[Len(d)])

RECURSIVE DigitsLess(_, _)
\* a < b for two digit runs of the same length
DigitsLess(a, b) ==
  IF a = <<>> THEN FALSE
  ELSE IF Head(a) # Head(b) THEN DigitValue(Head(a)) < DigitValue(Head(b))
  ELSE DigitsLess(Tail(a), Tail(b))

LONG_MAX == <<"9","2","2","3","3","7","2","0","3","6","8","5","4","7","7","5","8","0","7">>

\* the run of digits denotes a number >= bound
DigitsAtLeast(d, bound) ==
  LET n == StripZeros(d)
  IN Len(n) > Len(bound) \/ (Len(n) = Len(bound) /\ ~DigitsLess(n, bound))

StrToL(d) == IF Len(StripZeros(d)) <= 9 THEN DecimalValue(StripZeros(d)) ELSE -1

(***************************************************************************)
(* The parse functions.  Each takes the parser state and returns           *)
(* [P |-> the state it leaves, node |-> the AST_Node* it returns].         *)
(***************************************************************************)
R(ps, node) == [P |-> ps, node |-> node]

RECURSIVE Parse(_, _), InfixLoop(_, _, _, _, _), Type(_), Identifier(_, _),
          IdentifierUse(_, _, _, _), Unary(_), Binary(_), TerseAssignment(_),
          Parens(_), Block(_, _), StatementChain(_, _), Expression(_), Statement(_),
          IfStmt(_), TernaryIfStmt(_, _), WhileStmt(_), ForStmt(_), Return(_),
          ArraySubscripting(_), EnumIdentifier(_, _), EnumLoop(_), EnumBlock(_),
          Enum(_), Struct(_), ParamsLoop(_, _, _), FunctionBody(_, _),
          FunctionDeclaration(_, _), ArgsLoop(_, _), FunctionCall(_, _)

Break(ps) ==
  R(IF ~NextTokenIs(ps, "SEMICOLON")
      THEN ErrorAtToken(ps, ps.next, "Break(): Expected ';' after Break")
      ELSE ps,
    NewNode("BREAK_NODE", NullNode, NullNode, NullNode, NoAnnotation))

Continue(ps) ==
  R(IF ~NextTokenIs(ps, "SEMICOLON")
      THEN ErrorAtToken(ps, ps.next, "Continue(): Expected ';' after Continue")
      ELSE ps,
    NewNode("CONTINUE_NODE", NullNode, NullNode, NullNode, NoAnnotation))

\* Literal annotating every literal as a bool
LiteralAnnotatedBool(ps) ==
  R(ps, NewNodeFromToken("LITERAL_NODE", NullNode, NullNode, NullNode,
                         ps.current, AnnotateType("BOOL_LITERAL")))

Literal(ps) ==
  R(ps, NewNodeFromToken("LITERAL_NODE", NullNode, NullNode, NullNode,
                         ps.current, AnnotateType(ps.current.type)))

Parse(ps0, PrecedenceLevel) ==
  IF PrecedenceLevel = PREC_EOF \/ ps0.fatal # "" THEN R(ps0, NullNode)
  ELSE Bind(Advance(ps0), LAMBDA ps :
    LET prefix_rule == Rules(ps.current.type).prefix
        can_assign == PrecedenceLevel <= ASSIGNMENT
    IN IF prefix_rule = "NULL"
         THEN R(ErrorAndExit(ps, "Prefix Rule is NULL."), NullNode)
         ELSE Bind(CASE prefix_rule = "Type"       -> Type(ps)
                     [] prefix_rule = "Enum"       -> Enum(ps)
                     [] prefix_rule = "Struct"     -> Struct(ps)
                     [] prefix_rule = "Break"      -> Break(ps)
                     [] prefix_rule = "Continue"   -> Continue(ps)
                     [] prefix_rule = "Return"     -> Return(ps)
                     [] prefix_rule = "Identifier" -> Identifier(ps, can_assign)
                     [] prefix_rule = "Literal"    -> Literal(ps)
                     [] prefix_rule = "Parens"     -> Parens(ps)
                     [] prefix_rule = "Unary"      -> Unary(ps),
                   LAMBDA pre :
                     InfixLoop(pre.P, PrecedenceLevel, can_assign, pre.node, NullNode)))

InfixLoop(ps, PrecedenceLevel, can_assign, prefix_node, return_node) ==
  IF ps.fatal # "" \/ ~(PrecedenceLevel <= Rules(ps.next.type).precedence)
    THEN R(ps, IF IsNull(return_node) THEN prefix_node ELSE return_node)
  ELSE Bind(Advance(ps), LAMBDA a :
    LET infix_rule == Rules(a.current.type).infix
    IN IF infix_rule = "NULL"
         THEN R(ErrorAndExit(a, "Infix Rule is NULL."), NullNode)
         ELSE Bind(IF infix_rule = "Binary" THEN Binary(a) ELSE ArraySubscripting(a),
                   LAMBDA inf :
           IF IsNull(inf.node)
             THEN R(ErrorAndExit(inf.P, "NULL_DEREFERENCE"), NullNode)
             ELSE Bind([inf.node EXCEPT !.left = IF IsNull(return_node)
                                                   THEN prefix_node ELSE return_node],
                       LAMBDA node :
                         InfixLoop(inf.P, PrecedenceLevel, can_assign, prefix_node, node))))

\* Type() without the check for an existing symbol
TypeWithoutRedeclarationCheck(ps0) ==
  LET type_token == ps0.current IN
  Bind(Match(ps0, "LBRACKET"), LAMBDA m1 :
  Bind(IF m1.ok THEN Match(m1.P, "INT_LITERAL") ELSE m1, LAMBDA m2 :
    LET sized == m1.ok /\ m2.ok
        array_size == IF sized THEN StrToL(m2.P.current.lexeme) ELSE 0
        is_array == m1.ok
        a == IF is_array THEN ArrayAnnotation(type_token.type, array_size)
                         ELSE AnnotateType(type_token.type)
    IN
  Bind(IF sized /\ DigitsAtLeast(m2.P.current.lexeme, LONG_MAX)
         THEN ErrorAndExit(m2.P, "Type(): strtol overflowed") ELSE m2.P, LAMBDA p1 :
  Bind(IF m1.ok THEN Consume(p1, "RBRACKET", "Type(): Expected ]") ELSE p1, LAMBDA p2 :
    LET st == SYMBOL_TABLE(p2)
        existing == IsIn(p2, st, p2.next)
    IN
  Bind(IF NextTokenIs(p2, "IDENTIFIER")
         THEN AddTo(p2, st, NewSymbol(p2.next, a, "DECL_DECLARED")).P
         ELSE p2, LAMBDA added :
  Bind(IF NextTokenIs(p2, "IDENTIFIER")
         THEN NoteDeclared(added, p2.next, st, existing)
         ELSE added, LAMBDA p4 :
  Bind(Consume(p4, "IDENTIFIER", "Type(): Expected IDENTIFIER after Type"), LAMBDA p5 :
    Identifier(p5, TRUE))))))))

Type(ps0) ==
  LET type_token == ps0.current IN
  Bind(Match(ps0, "LBRACKET"), LAMBDA m1 :
  Bind(IF m1.ok THEN Match(m1.P, "INT_LITERAL") ELSE m1, LAMBDA m2 :
    LET sized == m1.ok /\ m2.ok
        array_size == IF sized THEN StrToL(m2.P.current.lexeme) ELSE 0
        is_array == m1.ok
        a == IF is_array THEN ArrayAnnotation(type_token.type, array_size)
                         ELSE AnnotateType(type_token.type)
    IN
  Bind(IF sized /\ DigitsAtLeast(m2.P.current.lexeme, LONG_MAX)
         THEN ErrorAndExit(m2.P, "Type(): strtol overflowed") ELSE m2.P, LAMBDA p1 :
  Bind(IF m1.ok THEN Consume(p1, "RBRACKET", "Type(): Expected ]") ELSE p1, LAMBDA p2 :
    LET st == SYMBOL_TABLE(p2)
        s  == RetrieveFrom(p2, st, p2.next)
        existing == IsIn(p2, st, p2.next)
    IN
  Bind(IF NextTokenIs(p2, "IDENTIFIER") /\ existing
         THEN RedeclarationAtToken(p2, p2.next, s.token,
                                   "Type(): Redeclaration of identifier",
                                   s.annotation.declared_on_line)
         ELSE p2, LAMBDA p3 :
  Bind(IF NextTokenIs(p2, "IDENTIFIER")
         THEN AddTo(p3, st, NewSymbol(p2.next, a, "DECL_DECLARED")).P
         ELSE p3, LAMBDA added :
  Bind(IF NextTokenIs(p2, "IDENTIFIER")
         THEN NoteDeclared(added, p2.next, st, existing)
         ELSE added, LAMBDA p4 :
  Bind(Consume(p4, "IDENTIFIER", "Type(): Expected IDENTIFIER after Type"), LAMBDA p5 :
    Identifier(p5, TRUE)))))))))

Identifier(entered, can_assign) ==
  Bind(NoteIdentifier(entered, can_assign), LAMBDA ps0 :
  LET is_in_symbol_table == IsIn(ps0, SYMBOL_TABLE(ps0), ps0.current)
      identifier_token == ps0.current
  IN
  Bind(RetrieveFrom(ps0, SYMBOL_TABLE(ps0), ps0.current), LAMBDA symbol :
  Bind(Match(ps0, "LPAREN"), LAMBDA m :
    IF ~m.ok THEN IdentifierUse(ps0, can_assign, symbol, is_in_symbol_table)
    ELSE IF NextTokenIsAnyType(m.P)
            \/ (NextTokenIs(m.P, "RPAREN") /\ TokenAfterNextIs(m.P, "COLON_SEPARATOR"))
      THEN Bind(IF is_in_symbol_table /\ symbol.declaration_type # "DECL_DECLARED"
                  THEN RedeclarationAtToken(m.P, identifier_token, symbol.token,
                                            "Identifier(): Function has been redeclared",
                                            symbol.annotation.declared_on_line)
                  ELSE m.P, LAMBDA p1 :
           Bind(IF ~is_in_symbol_table
                  THEN AddTo(p1, SYMBOL_TABLE(p1),
                             NewSymbol(identifier_token, FunctionAnnotation("VOID"),
                                       "DECL_UNINITIALIZED")).P
                  ELSE p1, LAMBDA p2 :
           Bind(RetrieveFrom(p2, SYMBOL_TABLE(p2), identifier_token), LAMBDA declared :
             FunctionDeclaration(p2, declared))))
      ELSE Bind(IF ~is_in_symbol_table
                  THEN ErrorAtToken(m.P, identifier_token, "Undeclared function")
                ELSE IF symbol.declaration_type # "DECL_DEFINED"
                  THEN ErrorAtToken(m.P, identifier_token, "Can't call an undefined function")
                ELSE m.P, LAMBDA p1 :
             FunctionCall(p1, identifier_token)))))

\* the test of can_assign that Identifier() makes once it has matched '='
AssignAnyway(ps, can_assign, identifier_token) == ps

CannotAssign(ps, can_assign, identifier_token) ==
  IF ~can_assign
    THEN ErrorAtToken(ps, identifier_token, "Identifier(): Cannot assign to identifier")
    ELSE ps

\* Identifier() from the line after the branch for '(' to its end
IdentifierUse(ps0, can_assign, symbol0, is_in_symbol_table) ==
  LET identifier_token == ps0.current IN
  Bind(ExistsInOuterScope(ps0, identifier_token), LAMBDA outer :
  Bind(IF ~is_in_symbol_table /\ outer.token.type = "ERROR"
         THEN ErrorAtToken(ps0, identifier_token, "Identifier(): Undeclared identifier")
         ELSE ps0, LAMBDA p1 :
  Bind(IF ~is_in_symbol_table THEN outer ELSE symbol0, LAMBDA symbol :
  Bind(RetrieveFrom(p1, SYMBOL_TABLE(p1), identifier_token), LAMBDA already_declared :
  Bind(IF symbol.declaration_type = "DECL_NONE" /\ can_assign
         THEN RedeclarationAtToken(p1, identifier_token, already_declared.token,
                                   "Identifier(): Identifier has been redeclared",
                                   already_declared.annotation.declared_on_line)
         ELSE p1, LAMBDA p2 :
  Bind(Match(p2, "LBRACKET"), LAMBDA mb :
  Bind(IF mb.ok THEN ArraySubscripting(mb.P) ELSE R(p2, NullNode), LAMBDA sub :
    LET array_index == sub.node
        p3 == sub.P
        undefined == symbol.declaration_type # "DECL_DEFINED"
    IN
  Bind(Match(p3, "PLUS_PLUS"), LAMBDA inc :
    IF inc.ok
      THEN R(IF undefined
               THEN ErrorAtToken(inc.P, identifier_token, "Identifier(): Cannot increment undefined variable")
               ELSE inc.P,
             NewNodeFromToken("POSTFIX_INCREMENT_NODE", NullNode, NullNode, NullNode,
                              identifier_token, symbol.annotation))
    ELSE
  Bind(Match(p3, "MINUS_MINUS"), LAMBDA dec :
    IF dec.ok
      THEN R(IF undefined
               THEN ErrorAtToken(dec.P, identifier_token, "Identifier(): Cannot decrement undefined variable")
               ELSE dec.P,
             NewNodeFromToken("POSTFIX_DECREMENT_NODE", NullNode, NullNode, NullNode,
                              identifier_token, symbol.annotation))
    ELSE
  Bind(Match(p3, "EQUALS"), LAMBDA eq :
    IF eq.ok
      THEN Bind(CannotAssign(eq.P, can_assign, identifier_token), LAMBDA p4 :
           Bind(AddTo(p4, SYMBOL_TABLE(p4),
                      NewSymbol(identifier_token, symbol.annotation, "DECL_DEFINED")), LAMBDA stored :
           Bind(Expression(stored.P), LAMBDA e :
             R(e.P, NewNodeFromSymbol("ASSIGNMENT_NODE", e.node, array_index, NullNode, stored.sym)))))
    ELSE IF NextTokenIsTerseAssignment(p3)
      THEN Bind(ConsumeAny(p3, TerseAssignments, "Identifier() Terse Assignment"), LAMBDA p4 :
           Bind(IF undefined
                  THEN ErrorAtToken(p4, identifier_token, "Identifier(): Cannot perform a terse assignment on undefined variable")
                  ELSE p4, LAMBDA p5 :
           Bind(TerseAssignment(p5), LAMBDA t :
             IF IsNull(t.node) THEN R(ErrorAndExit(t.P, "NULL_DEREFERENCE"), NullNode)
             ELSE R(t.P, [t.node EXCEPT !.left =
                            NewNodeFromSymbol("IDENTIFIER_NODE", NullNode, NullNode, NullNode, symbol)]))))
    ELSE LET s == RetrieveFrom(p3, SYMBOL_TABLE(p3), identifier_token)
         IN R(p3, NewNodeFromToken(IF s.declaration_type = "DECL_DECLARED"
                                     THEN "DECLARATION_NODE" ELSE "IDENTIFIER_NODE",
                                   NullNode, array_index, NullNode, identifier_token, s.annotation))
  ))))))))))

Unary(ps0) ==
  LET operator_token == ps0.current
      t == operator_token.type
  IN
  Bind(Parse(ps0, UNARY), LAMBDA r :
    IF t = "PLUS_PLUS"
      THEN R(r.P, NewNodeFromToken("PREFIX_INCREMENT_NODE", r.node, NullNode, NullNode, operator_token, NoAnnotation))
    ELSE IF t = "MINUS_MINUS"
      THEN R(r.P, NewNodeFromToken("PREFIX_DECREMENT_NODE", r.node, NullNode, NullNode, operator_token, NoAnnotation))
    ELSE IF t \in {"LOGICAL_NOT", "MINUS"}
      THEN R(r.P, NewNodeFromToken("UNARY_OP_NODE", r.node, NullNode, NullNode, operator_token, NoAnnotation))
    ELSE R(ErrorAtToken(r.P, operator_token, "Unary(): Unknown Unary operator"), NullNode))

Binary(ps0) ==
  LET operator_token == ps0.current IN
  Bind(Rules(ps0.current.type).precedence, LAMBDA precedence :
  Bind(Parse(ps0, precedence + 1), LAMBDA r :
    IF operator_token.type \in {"PLUS","MINUS","ASTERISK","DIVIDE","MODULO","EQUALITY",
                                "LOGICAL_AND","LOGICAL_OR","LESS_THAN","GREATER_THAN",
                                "BITWISE_XOR","BITWISE_NOT","BITWISE_AND","BITWISE_OR",
                                "BITWISE_LEFT_SHIFT","BITWISE_RIGHT_SHIFT"}
      THEN R(r.P, NewNodeFromToken("BINARY_OP_NODE", NullNode, NullNode, r.node, operator_token, NoAnnotation))
      ELSE R(ErrorAtToken(r.P, operator_token, "Binary(): Unknown operator"), NullNode)))

TerseAssignment(ps0) ==
  LET operator_token == ps0.current IN
  Bind(Rules(ps0.current.type).precedence, LAMBDA precedence :
  Bind(Parse(ps0, precedence + 1), LAMBDA r :
    IF operator_token.type \in TerseAssignments
      THEN R(r.P, NewNodeFromToken("TERSE_ASSIGNMENT_NODE", NullNode, NullNode, r.node, operator_token, NoAnnotation))
      ELSE R(ErrorAtToken(r.P, operator_token, "TerseAssignment(): Unknown operator"), NullNode)))

\* the loop shared by Block, Struct and FunctionBody: statements until '}' or
\* the end of input, each hung at LEFT of a spine node whose RIGHT is the next
StatementChain(ps, head) ==
  IF ps.fatal # "" \/ NextTokenIs(ps, "RCURLY") \/ NextTokenIs(ps, "TOKEN_EOF")
    THEN R(ps, NewNodeWithArity(head, NullNode, NullNode, NullNode, BINARY_ARITY, NoAnnotation))
  ELSE Bind(Statement(ps), LAMBDA s :
       Bind(StatementChain(s.P, "CHAIN_NODE"), LAMBDA rest :
         R(rest.P, [NewNodeWithArity(head, NullNode, NullNode, NullNode, BINARY_ARITY, NoAnnotation)
                      EXCEPT !.left = s.node, !.right = rest.node])))

Block(ps, kind) ==
  Bind(OpenBlock(ps, kind), LAMBDA p1 :
  Bind(StatementChain(p1, "CHAIN_NODE"), LAMBDA n :
  Bind(Consume(n.P, "RCURLY", "Block(): Expected '}' after Block"), LAMBDA p2 :
    R(CloseBlock(p2), n.node))))

Expression(ps) == Parse(ps, ASSIGNMENT)

Statement(ps) ==
  Bind(
  Bind(Match(ps, "IF"), LAMBDA mi :
    IF mi.ok THEN IfStmt(mi.P) ELSE
  Bind(Match(ps, "WHILE"), LAMBDA mw :
    IF mw.ok THEN WhileStmt(mw.P) ELSE
  Bind(Match(ps, "FOR"), LAMBDA mf :
    IF mf.ok THEN ForStmt(mf.P) ELSE
  Bind(Expression(ps), LAMBDA e :
    LET a == e.node.annotation
    IN IF e.P.fatal # "" THEN e
       ELSE IF IsNull(e.node) THEN R(ErrorAndExit(e.P, "NULL_DEREFERENCE"), NullNode)
       ELSE IF a.ostensible_type = "OST_ENUM" \/ a.ostensible_type = "OST_STRUCT" \/ a.is_function
         THEN R(Match(e.P, "SEMICOLON").P, e.node)
       ELSE R(Consume(e.P, "SEMICOLON", "Statement(): A ';' is expected after an expression statement"), e.node))))),
  LAMBDA result : R(NoteStatement(result.P, ps.advances, ps.depth, ps.shadowed_symbol_table), result.node))

\* IfStmt() down to the end of its first block
IfStmtBlock(ps) ==
  Bind(Consume(ps, "LPAREN", "IfStmt(): Expected '(' after IF token"), LAMBDA p1 :
  Bind(Expression(p1), LAMBDA condition :
  Bind(Consume(condition.P, "RPAREN", "IfStmt(): Expected ')' after IF condition"), LAMBDA p2 :
  Bind(Consume(p2, "LCURLY", "IfStmt(): Expected '{'"), LAMBDA p3 :
  Bind(BeginScope(p3), LAMBDA p4 :
  Bind(Block(p4, "if"), LAMBDA body_if_true :
    [P |-> body_if_true.P, condition |-> condition.node, body_if_true |-> body_if_true.node]))))))

IfStmt(ps) ==
  Bind(IfStmtBlock(ps), LAMBDA head :
  Bind(Match(head.P, "ELSE"), LAMBDA me :
  Bind(IF ~me.ok THEN R(me.P, NullNode)
       ELSE Bind(Match(me.P, "IF"), LAMBDA mi :
              IF mi.ok THEN IfStmt(mi.P)
              ELSE Bind(Consume(mi.P, "LCURLY", "IfStmt(): Expected block starting with '{' after ELSE"),
                        LAMBDA p5 : Block(p5, "else"))),
       LAMBDA body_if_false :
    R(EndScope(body_if_false.P),
      NewNode("IF_NODE", head.condition, head.body_if_true, body_if_false.node, NoAnnotation)))))

TernaryIfStmt(ps, condition) ==
  Bind(Consume(ps, "QUESTION_MARK", "TernaryIfStmt(): Expected '?' after Ternary Condition"), LAMBDA p1 :
  Bind(Expression(p1), LAMBDA if_true :
  Bind(Consume(if_true.P, "COLON", "TernaryIfStmt(): Expected ':' after Ternary Statement"), LAMBDA p2 :
  Bind(Expression(p2), LAMBDA if_false :
    R(if_false.P, NewNode("IF_NODE", condition, if_true.node, if_false.node, NoAnnotation))))))

WhileStmt(ps) ==
  Bind(Expression(ps), LAMBDA condition :
  Bind(Consume(condition.P, "LCURLY", "WhileStmt(): Expected '{' after While condition"), LAMBDA p1 :
  Bind(Block(p1, "while"), LAMBDA block :
    R(Match(block.P, "SEMICOLON").P,
      NewNode("WHILE_NODE", condition.node, NullNode, block.node, NoAnnotation)))))

RECURSIVE SpliceAfterLast(_, _)
\* find_last_body_statement: walk RIGHT to the node whose RIGHT is NULL and hang
\* after_loop there
SpliceAfterLast(body, after_loop) ==
  IF IsNull(body.right) THEN [body EXCEPT !.right = after_loop]
  ELSE Bind(SpliceAfterLast(body.right, after_loop), LAMBDA spliced :
         [body EXCEPT !.right = spliced])

ForStmt(ps) ==
  Bind(Consume(ps, "LPAREN", "ForStmt(): Expected '(' after For"), LAMBDA p1 :
  Bind(Statement(p1), LAMBDA initialization :
  Bind(Statement(initialization.P), LAMBDA condition :
  Bind(Expression(condition.P), LAMBDA after_loop :
  Bind(Consume(after_loop.P, "RPAREN", "ForStmt(): Expected ')' after For"), LAMBDA p2 :
  Bind(Consume(p2, "LCURLY", "ForStmt(): Expected '{' after For"), LAMBDA p3 :
  Bind(Block(p3, "for"), LAMBDA body :
  Bind(SpliceAfterLast(body.node, after_loop.node), LAMBDA spliced :
    R(body.P, NewNode("STATEMENT_NODE", initialization.node, NullNode,
                      NewNode("WHILE_NODE", condition.node, NullNode, spliced, NoAnnotation),
                      NoAnnotation))))))))))

Return(ps) ==
  Bind(IF ~NextTokenIs(ps, "SEMICOLON") THEN Expression(ps) ELSE R(ps, NullNode), LAMBDA expr :
    R(expr.P, NewNode("RETURN_NODE", expr.node, NullNode, NullNode,
                      IF IsNull(expr.node) THEN AnnotateType("VOID") ELSE expr.node.annotation)))

Parens(ps) ==
  Bind(Expression(ps), LAMBDA parse_result :
  Bind(Consume(parse_result.P, "RPAREN", "Parens(): Missing ')' after expression"), LAMBDA p1 :
    IF NextTokenIs(p1, "QUESTION_MARK") THEN TernaryIfStmt(p1, parse_result.node)
    ELSE R(p1, parse_result.node)))

ArraySubscripting(ps) ==
  Bind(Match(ps, "IDENTIFIER"), LAMBDA mi :
  Bind(IF mi.ok
         THEN LET symbol == RetrieveFrom(mi.P, SYMBOL_TABLE(mi.P), mi.P.current) IN
              Bind(IF ~IsIn(mi.P, SYMBOL_TABLE(mi.P), mi.P.current)
                     THEN ErrorAtToken(mi.P, mi.P.current, "ArraySubscripting(): Can't access array with undeclared identifier")
                     ELSE mi.P, LAMBDA p1 :
              Bind(IF symbol.declaration_type # "DECL_DEFINED"
                     THEN ErrorAtToken(p1, p1.current, "ArraySubscripting(): Can't access array with uninitialized identifier")
                     ELSE p1, LAMBDA p2 :
                R(p2, NewNodeFromSymbol("ARRAY_SUBSCRIPT_NODE", NullNode, NullNode, NullNode, symbol))))
         ELSE Bind(Match(ps, "INT_LITERAL"), LAMBDA ml :
                IF ml.ok
                  THEN R(ml.P, NewNodeFromToken("ARRAY_SUBSCRIPT_NODE", NullNode, NullNode, NullNode,
                                                ml.P.current, AnnotateType(ml.P.current.type)))
                  ELSE R(ps, NullNode)),
       LAMBDA r :
    R(Consume(r.P, "RBRACKET", "ArraySubscripting(): Where's the ']'?"), r.node)))

\* a loop iteration that consumed no token repeats forever: the process never
\* returns from the loop
Diverges(ps, where) == ErrorAndExit(ps, "NEVER_RETURNS " \o where)

EnumIdentifier(ps0, can_assign) ==
  LET is_in_symbol_table == IsIn(ps0, SYMBOL_TABLE(ps0), ps0.current)
      identifier_token == ps0.current
  IN
  Bind(RetrieveFrom(ps0, SYMBOL_TABLE(ps0), ps0.current), LAMBDA symbol :
  Bind(IF ~is_in_symbol_table
         THEN ErrorAtToken(ps0, identifier_token, "EnumIdentifier(): Undeclared identifier")
         ELSE ps0, LAMBDA p1 :
  Bind(RetrieveFrom(p1, SYMBOL_TABLE(p1), identifier_token), LAMBDA already_declared :
  Bind(IF symbol.declaration_type = "DECL_NONE" /\ can_assign
         THEN RedeclarationAtToken(p1, identifier_token, already_declared.token,
                                   "Identifier(): Identifier has been redeclared",
                                   already_declared.annotation.declared_on_line)
         ELSE p1, LAMBDA p2 :
  Bind(Match(p2, "EQUALS"), LAMBDA eq :
    IF eq.ok
      THEN Bind(IF ~can_assign
                  THEN ErrorAtToken(eq.P, identifier_token, "Identifier(): Cannot assign to identifier")
                  ELSE eq.P, LAMBDA p3 :
           Bind(AddTo(p3, SYMBOL_TABLE(p3),
                      NewSymbol(identifier_token, symbol.annotation, "DECL_DEFINED")), LAMBDA stored :
           Bind(Expression(stored.P), LAMBDA e :
             R(e.P, NewNodeFromSymbol("ASSIGNMENT_NODE", e.node, NullNode, NullNode, stored.sym)))))
      ELSE R(p2, NewNodeFromToken("ENUM_IDENTIFIER_NODE", NullNode, NullNode, NullNode,
                                  identifier_token, AnnotateType("ENUM_LITERAL"))))))))

\* the while loop of EnumBlock
EnumLoop(ps) ==
  IF ps.fatal # "" \/ NextTokenIs(ps, "RCURLY") \/ NextTokenIs(ps, "TOKEN_EOF")
    THEN R(ps, NewNodeWithArity("CHAIN_NODE", NullNode, NullNode, NullNode, BINARY_ARITY, NoAnnotation))
  ELSE
  Bind(IF IsIn(ps, SYMBOL_TABLE(ps), ps.next)
         THEN ErrorAtToken(ps, ps.next, "EnumBlock(): Enum identifier already exists")
         ELSE ps, LAMBDA p1 :
  Bind(Consume(p1, "IDENTIFIER", "EnumBlock(): Expected IDENTIFIER after Type"), LAMBDA p2 :
  Bind(AddTo(p2, SYMBOL_TABLE(p2),
             NewSymbol(p2.current, AnnotateType("ENUM_LITERAL"), "DECL_DEFINED")).P, LAMBDA p3 :
  Bind(EnumIdentifier(p3, TRUE), LAMBDA id :
  Bind(Match(id.P, "COMMA").P, LAMBDA p4 :
    IF p4.fatal = "" /\ p4.advances = ps.advances
      THEN R(Diverges(p4, "EnumBlock"), NullNode)
      ELSE Bind(EnumLoop(p4), LAMBDA rest :
             R(rest.P, [NewNodeWithArity("CHAIN_NODE", NullNode, NullNode, NullNode,
                                         BINARY_ARITY, NoAnnotation)
                          EXCEPT !.left = id.node, !.right = rest.node])))))))

EnumBlock(ps) ==
  Bind(Consume(ps, "LCURLY", "EnumBlock(): Expected '{' after ENUM declaration"), LAMBDA p1 :
  Bind(EnumLoop(p1), LAMBDA n :
    R(Consume(n.P, "RCURLY", "EnumBlock(): Expected '}' after ENUM block"), n.node)))

Enum(ps) ==
  Bind(Consume(ps, "IDENTIFIER", "Enum(): Expected IDENTIFIER after Type"), LAMBDA p1 :
  Bind(AddTo(p1, SYMBOL_TABLE(p1),
             NewSymbol(p1.current, AnnotateType("ENUM"), "DECL_DECLARED")).P, LAMBDA p2 :
  Bind(Identifier(p2, FALSE), LAMBDA enum_name :
    IF enum_name.P.fatal # "" THEN enum_name
    ELSE Bind(EnumBlock(enum_name.P), LAMBDA block :
           IF IsNull(enum_name.node) THEN R(ErrorAndExit(block.P, "NULL_DEREFERENCE"), NullNode)
           ELSE R(block.P, [enum_name.node EXCEPT !.left = block.node])))))

Struct(ps) ==
  Bind(Consume(ps, "IDENTIFIER", "Struct(): Expected IDENTIFIER after Type"), LAMBDA p1 :
    LET identifier_token == p1.current IN
  Bind(IF IsIn(p1, SYMBOL_TABLE(p1), identifier_token)
         THEN ErrorAtToken(p1, identifier_token, "Struct(): Struct is already in symbol table")
         ELSE p1, LAMBDA p2 :
  Bind(AddTo(p2, SYMBOL_TABLE(p2),
             NewSymbol(identifier_token, AnnotateType("STRUCT"), "DECL_DECLARED")), LAMBDA identifier_symbol :
  Bind(ShadowSymbolTable(identifier_symbol.P, identifier_symbol.sym.struct_fields), LAMBDA p3 :
  Bind(Consume(p3, "LCURLY", "Struct(): Expected '{' after STRUCT declaration"), LAMBDA p4 :
    LET has_empty_body == NextTokenIs(p4, "RCURLY") \/ NextTokenIs(p4, "TOKEN_EOF") IN
  Bind(StatementChain(p4, "CHAIN_NODE"), LAMBDA n :
  Bind(Consume(n.P, "RCURLY", "Struct(): Expected '}' after STRUCT block"), LAMBDA p5 :
  Bind(ShadowSymbolTable(p5, 0), LAMBDA p6 :
  Bind(IF has_empty_body
         THEN ErrorAtToken(p6, identifier_symbol.sym.token, "Struct(): Struct has empty body")
         ELSE p6, LAMBDA p7 :
  Bind(AddTo(p7, SYMBOL_TABLE(p7),
             NewSymbol(identifier_token, AnnotateType("STRUCT"), "DECL_DEFINED")), LAMBDA stored_symbol :
    R(stored_symbol.P,
      NewNodeFromSymbol("IDENTIFIER_NODE", n.node, NullNode, NullNode, stored_symbol.sym))))))))))))

\* the while loop of FunctionParams; the node returned is *current
ParamsLoop(ps, fn_params, identifier0) ==
  IF ps.fatal # "" \/ NextTokenIs(ps, "RPAREN") \/ NextTokenIs(ps, "TOKEN_EOF")
    THEN R(ps, NewNode("FUNCTION_PARAM_NODE", NullNode, NullNode, NullNode, NoAnnotation))
  ELSE
  Bind(RetrieveFrom(ps, SYMBOL_TABLE(ps), identifier0.token), LAMBDA identifier :
  Bind(ConsumeAny(ps, TypeKeywords, "FunctionParams(): Expected a type"), LAMBDA p1 :
    LET type_token == p1.current IN
  Bind(Consume(p1, "IDENTIFIER", "FunctionParams(): Expected identifier after '('"), LAMBDA p2 :
    LET identifier_token == p2.current
        existing_symbol == RetrieveFrom(p2, SYMBOL_TABLE(p2), identifier.token)
    IN
  Bind(IF IsIn(p2, fn_params, identifier_token)
            /\ existing_symbol.declaration_type # "DECL_DECLARED"
         THEN ErrorAtToken(p2, identifier_token, "FunctionParams(): Duplicate parameter name")
         ELSE p2, LAMBDA p3 :
  Bind(AddTo(p3, fn_params,
             NewSymbol(identifier_token, AnnotateType(type_token.type), "DECL_FN_PARAM")), LAMBDA stored_symbol :
  Bind(RegisterFnParam(stored_symbol.P, SYMBOL_TABLE(stored_symbol.P), identifier,
                       stored_symbol.sym), LAMBDA p4 :
  Bind(Match(p4, "COMMA"), LAMBDA mc :
  Bind([NewNode("FUNCTION_PARAM_NODE", NullNode, NullNode, NullNode, NoAnnotation)
          EXCEPT !.annotation = stored_symbol.sym.annotation,
                 !.token = identifier_token], LAMBDA this :
    IF mc.P.fatal = "" /\ mc.P.advances = ps.advances
      THEN R(Diverges(mc.P, "FunctionParams"), NullNode)
    ELSE IF mc.ok \/ ~NextTokenIs(mc.P, "RPAREN")
      THEN Bind(ParamsLoop(mc.P, fn_params, identifier), LAMBDA rest :
             R(rest.P, [this EXCEPT !.left = rest.node]))
    ELSE R(mc.P, this)))))))))

\* FunctionParams storing the parameters in the current table
FunctionParamsInCurrentTable(ps, fn_params, identifier) ==
  ParamsLoop(ps, SYMBOL_TABLE(ps), identifier)

FunctionParams(ps, fn_params, identifier) == ParamsLoop(ps, fn_params, identifier)

FunctionReturnType(ps) ==
  Bind(Consume(ps, "RPAREN", "FunctionReturnType(): ')' required after function declaration"), LAMBDA p1 :
  Bind(Consume(p1, "COLON_SEPARATOR", "FunctionReturnType(): '::' required after function declaration"), LAMBDA p2 :
  Bind(ConsumeAny(p2, TypeKeywords, "FunctionReturnType(): Expected a type after '::'"), LAMBDA p3 :
    LET fn_return_type == p3.current
    IN R(p3, NewNodeFromToken("FUNCTION_RETURN_TYPE_NODE", NullNode, NullNode, NullNode,
                              fn_return_type, AnnotateType(fn_return_type.type))))))

FunctionBody(ps, fn_params) ==
  IF NextTokenIs(ps, "SEMICOLON") THEN R(ps, NullNode)
  ELSE
  Bind(Consume(ps, "LCURLY", "FunctionBody(): Expected '{' to begin function body"), LAMBDA p1 :
  Bind(ShadowSymbolTable(p1, fn_params), LAMBDA shadowed :
  Bind(StatementChain(shadowed, "FUNCTION_BODY_NODE"), LAMBDA body :
  Bind(ShadowSymbolTable(body.P, 0), LAMBDA p2 :
    R(Consume(p2, "RCURLY", "FunctionBody(): Expected '}' after function body"), body.node)))))

FunctionDeclaration(ps, symbol0) ==
  Bind(FunctionParams(ps, symbol0.fn_params, symbol0), LAMBDA params :
  Bind(FunctionReturnType(params.P), LAMBDA return_type :
  Bind(FunctionBody(return_type.P, symbol0.fn_params), LAMBDA body :
    LET bodiless == IsNull(body.node) IN
  Bind(IF symbol0.declaration_type = "DECL_DECLARED" /\ bodiless
         THEN ErrorAtToken(body.P, symbol0.token, "FunctionDeclaration(): Double declaration of function")
         ELSE body.P, LAMBDA p1 :
  Bind(RetrieveFrom(p1, SYMBOL_TABLE(p1), symbol0.token), LAMBDA symbol :
  Bind([symbol EXCEPT
          !.annotation = IF symbol.declaration_type = "DECL_DECLARED" THEN @
                         ELSE FunctionAnnotation(return_type.node.token.type),
          !.declaration_type = IF bodiless THEN "DECL_DECLARED" ELSE "DECL_DEFINED"], LAMBDA updated :
  Bind(AddTo(p1, SYMBOL_TABLE(p1), updated), LAMBDA updated_symbol :
    R(updated_symbol.P,
      NewNodeFromSymbol(IF bodiless THEN "DECLARATION_NODE" ELSE "FUNCTION_NODE",
                        return_type.node, params.node, body.node, updated_symbol.sym)))))))))

EmptyArgument == NewNode("FUNCTION_ARGUMENT_NODE", NullNode, NullNode, NullNode, NoAnnotation)

\* the while loop of FunctionCall; cur is *current and the node returned is
\* what *current holds when the loop ends
ArgsLoop(ps, cur) ==
  IF ps.fatal # "" \/ NextTokenIs(ps, "RPAREN") \/ NextTokenIs(ps, "TOKEN_EOF") THEN R(ps, cur)
  ELSE
  Bind(IF NextTokenIs(ps, "IDENTIFIER")
         THEN Bind(Consume(ps, "IDENTIFIER", "FunctionCall(): Expected identifier"), LAMBDA pi :
              Bind(RetrieveFrom(pi, SYMBOL_TABLE(pi), pi.current), LAMBDA identifier :
              Bind(Match(pi, "LPAREN"), LAMBDA ml :
                IF ml.ok THEN FunctionCall(ml.P, identifier.token)
                ELSE R(ml.P, NewNodeFromSymbol("FUNCTION_ARGUMENT_NODE", NullNode, NullNode,
                                               NullNode, identifier)))))
       ELSE IF NextTokenIsLiteral(ps)
         THEN Bind(ConsumeAny(ps, LiteralTypes, "FunctionCall(): Expected literal"), LAMBDA pl :
                R(pl, NewNodeFromToken("FUNCTION_ARGUMENT_NODE", NullNode, NullNode, NullNode,
                                       pl.current, AnnotateType(pl.current.type))))
       ELSE R(ps, cur.left), LAMBDA arg :
  Bind([cur EXCEPT !.left = arg.node], LAMBDA cur1 :
    IF NextTokenIs(arg.P, "COMMA")
      THEN Bind(Consume(arg.P, "COMMA", ""), LAMBDA pc1 :
             IF NextTokenIs(pc1, "RPAREN") THEN R(pc1, cur1)
             ELSE Bind(ArgsLoop(pc1, EmptyArgument), LAMBDA rest :
                    R(rest.P, [cur1 EXCEPT !.right = rest.node])))
    ELSE IF arg.P.fatal = "" /\ arg.P.advances = ps.advances
      THEN R(Diverges(arg.P, "FunctionCall"), NullNode)
    ELSE ArgsLoop(arg.P, cur1)))

FunctionCall(ps, function_name) ==
  Bind(NoteCall(ps, function_name), LAMBDA noted :
  Bind(IF NextTokenIs(ps, "RPAREN") \/ NextTokenIs(ps, "TOKEN_EOF")
         THEN R(noted, NullNode)
         ELSE ArgsLoop(noted, EmptyArgument), LAMBDA args :
    R(Consume(args.P, "RPAREN", "FunctionCall(): Expected ')'"),
      NewNodeFromToken("FUNCTION_CALL_NODE", NullNode, args.node, NullNode,
                       function_name, NoAnnotation))))

(***************************************************************************)
(* Programs: the texts handed to the compiler are made of these statements,*)
(* one per line.                                                           *)
(***************************************************************************)
Snippet(name) ==
  \* bool check = true;
  CASE name = "bool_true" ->
       <<"b","o","o","l"," ","c","h","e","c","k"," ","="," ","t","r","u","e",";","\n">>
  \* bool check = false;
    [] name = "bool_false" ->
       <<"b","o","o","l"," ","c","h","e","c","k"," ","="," ","f","a","l","s","e",";","\n">>
  \* bool check = 2;
    [] name = "bool_two" ->
       <<"b","o","o","l"," ","c","h","e","c","k"," ","="," ","2",";","\n">>
  \* i32 x;
    [] name = "decl_x" ->
       <<"i","3","2"," ","x",";","\n">>
  \* i32 x = 1;
    [] name = "def_x" ->
       <<"i","3","2"," ","x"," ","="," ","1",";","\n">>
  \* x = 2;
    [] name = "assign_x" ->
       <<"x"," ","="," ","2",";","\n">>
  \* i32 y;
    [] name = "decl_y" ->
       <<"i","3","2"," ","y",";","\n">>
  \* enum x { A }
    [] name = "enum_x" ->
       <<"e","n","u","m"," ","x"," ","{"," ","A"," ","}","\n">>
  \* f() :: i32;
    [] name = "fwd_f" ->
       <<"f","(",")"," ",":",":"," ","i","3","2",";","\n">>
  \* f() :: i32 { }
    [] name = "def_f" ->
       <<"f","(",")"," ",":",":"," ","i","3","2"," ","{"," ","}","\n">>
  \* i32 f() :: i32;
    [] name = "typed_fwd_f" ->
       <<"i","3","2"," ","f","(",")"," ",":",":"," ","i","3","2",";","\n">>
  \* i32 f() :: i32 { }
    [] name = "typed_def_f" ->
       <<"i","3","2"," ","f","(",")"," ",":",":"," ","i","3","2"," ","{"," ","}","\n">>
  \* f(i32 a, i32 a) :: i32;
    [] name = "fwd_f_aa" ->
       <<"f","(","i","3","2"," ","a",","," ","i","3","2"," ","a",")"," ",":",":"," ","i","3","2",";","\n">>
  \* f(i32 a, i32 a) :: i32 { }
    [] name = "def_f_aa" ->
       <<"f","(","i","3","2"," ","a",","," ","i","3","2"," ","a",")"," ",":",":"," ","i","3","2"," ","{"," ","}","\n">>
  \* f();
    [] name = "call_f" ->
       <<"f","(",")",";","\n">>
  \* x = f();
    [] name = "x_is_f" ->
       <<"x"," ","="," ","f","(",")",";","\n">>
  \* f(g());
    [] name = "call_f_g" ->
       <<"f","(","g","(",")",")",";","\n">>
  \* if (x) { i32 y; } else { i32 y; }
    [] name = "if_else" ->
       <<"i","f"," ","(","x",")"," ","{"," ","i","3","2"," ","y",";"," ","}"," ","e","l","s","e"," ","{"," ","i","3","2"," ","y",";"," ","}","\n">>
  \* while x { i32 y; }
    [] name = "while_y" ->
       <<"w","h","i","l","e"," ","x"," ","{"," ","i","3","2"," ","y",";"," ","}","\n">>
  \* for (i32 i = 0; i; i++) { i32 y; }
    [] name = "for_y" ->
       <<"f","o","r"," ","(","i","3","2"," ","i"," ","="," ","0",";"," ","i",";"," ","i","+","+",")"," ","{"," ","i","3","2"," ","y",";"," ","}","\n">>
  \* i32 add(i32 a, i32 b) :: i32 { return a + b; }
    [] name = "add" ->
       <<"i","3","2"," ","a","d","d","(","i","3","2"," ","a",","," ","i","3","2"," ","b",")"," ",":",":"," ","i","3","2"," ","{"," ","r","e","t","u","r","n"," ","a"," ","+"," ","b",";"," ","}","\n">>
  \* i32 main() :: i32 { return add(1,2); }
    [] name = "main" ->
       <<"i","3","2"," ","m","a","i","n","(",")"," ",":",":"," ","i","3","2"," ","{"," ","r","e","t","u","r","n"," ","a","d","d","(","1",",","2",")",";"," ","}","\n">>
  \* i32 i = 0; while (i) { i32 y; i++; }
    [] name = "while_post" ->
       <<"i","3","2"," ","i"," ","="," ","0",";"," ","w","h","i","l","e"," ","(","i",")"," ","{"," ","i","3","2"," ","y",";"," ","i","+","+",";"," ","}","\n">>
  \* 1 && 2 || 3;
    [] name = "and_or" ->
       <<"1"," ","&","&"," ","2"," ","|","|"," ","3",";","\n">>
  \* 1 | 2 & 3;
    [] name = "or_and" ->
       <<"1"," ","|"," ","2"," ","&"," ","3",";","\n">>
  \* 1 < 2 > 3;
    [] name = "lt_gt" ->
       <<"1"," ","<"," ","2"," ",">"," ","3",";","\n">>
  \* 1 + x = 2;
    [] name = "add_assign" ->
       <<"1"," ","+"," ","x"," ","="," ","2",";","\n">>
  \* if (1) { x = 1; } x++;
    [] name = "if_assign" ->
       <<"i","f"," ","(","1",")"," ","{"," ","x"," ","="," ","1",";"," ","}"," ","x","+","+",";","\n">>
  \* (1) ? 2 : 3;
    [] name = "ternary" ->
       <<"(","1",")"," ","?"," ","2"," ",":"," ","3",";","\n">>
  \* f(i32 a) :: i32 { g() :: i32 { } a = 1; }
    [] name = "nested_g" ->
       <<"f","(","i","3","2"," ","a",")"," ",":",":"," ","i","3","2"," ","{"," ","g","(",")"," ",":",":"," ","i","3","2"," ","{"," ","}"," ","a"," ","="," ","1",";"," ","}","\n">>
  \* enum x { 1 }
    [] name = "enum_one" ->
       <<"e","n","u","m"," ","x"," ","{"," ","1"," ","}","\n">>
  \* f(+);
    [] name = "call_plus" ->
       <<"f","(","+",")",";","\n">>
  \* if(1){}else if(1){}else if(1){}else if(1){}else if(1){}else if(1){}else if(1){}else if(1){}else if(1){}else if(1){}
    [] name = "else_if_ten" ->
       <<"i","f","(","1",")","{","}","e","l","s","e"," ","i","f","(","1",")","{","}","e","l","s","e"," ","i","f","(","1",")","{","}","e","l","s","e"," ","i","f","(","1",")","{","}","e","l","s","e"," ","i","f","(","1",")","{","}","e","l","s","e"," ","i","f","(","1",")","{","}","e","l","s","e"," ","i","f","(","1",")","{","}","e","l","s","e"," ","i","f","(","1",")","{","}","e","l","s","e"," ","i","f","(","1",")","{","}","e","l","s","e"," ","i","f","(","1",")","{","}","\n">>

SnippetNames == {"bool_true", "bool_false", "bool_two", "decl_x", "def_x", "assign_x", "decl_y", "enum_x", "fwd_f", "def_f", "typed_fwd_f", "typed_def_f", "fwd_f_aa", "def_f_aa", "call_f", "x_is_f", "call_f_g", "if_else", "while_y", "for_y", "add", "main", "while_post", "and_or", "or_and", "lt_gt", "add_assign", "if_assign", "ternary", "nested_g", "enum_one", "call_plus", "else_if_ten"}

MaxStmts == 2

RECURSIVE Concat(_)
Concat(ss) == IF ss = <<>> THEN <<>> ELSE Head(ss) \o Concat(Tail(ss))

Program(names) == Concat([i \in DOMAIN names |-> Snippet(names[i])])

Programs == UNION { { Program(f) : f \in [1..n -> SnippetNames] } : n \in 1..MaxStmts }

(***************************************************************************)
(* The type checker that runs on the AST after the parse.  It reports a    *)
(* literal assigned to a name whose declared kind is another kind.         *)
(***************************************************************************)
RECURSIVE Disagreements(_)
Disagreements(n) ==
  IF IsNull(n) THEN <<>>
  ELSE (IF n.type = "ASSIGNMENT_NODE" /\ ~IsNull(n.left) /\ n.left.type = "LITERAL_NODE"
           /\ n.left.annotation.actual_type # n.annotation.actual_type
          THEN <<[msg |-> "ERR_TYPE_DISAGREEMENT", token |-> n.left.token,
                  original |-> n.token, line |-> 0]>>
          ELSE <<>>)
       \o Disagreements(n.left) \o Disagreements(n.middle) \o Disagreements(n.right)

RECURSIVE DisagreementsOf(_)
DisagreementsOf(statements) ==
  IF statements = <<>> THEN <<>>
  ELSE Disagreements(Head(statements)) \o DisagreementsOf(Tail(statements))

(***************************************************************************)
(* Values.  The member as of a Value is a union; the model keeps what is    *)
(* stored in it as a number (a bool is stored as 0 or 1) and reads it      *)
(* through the member the code names.  An operation returns the set of     *)
(* outcomes it can have: the Value returned, or the message of             *)
(* ERROR_AND_EXIT when the process ends instead.                           *)
(***************************************************************************)
MaxInt == 2

NoValue == [type |-> "V_NONE", array_type |-> 0, array_size |-> 0, as |-> 0]

NewIntValue(i) == [type |-> "V_INT", array_type |-> 0, array_size |-> 0, as |-> i]

NewUintValue(u) == [type |-> "V_UINT", array_type |-> 0, array_size |-> 0, as |-> u]

NewBoolValue(b) ==
  [type |-> "V_BOOL", array_type |-> 0, array_size |-> 0, as |-> IF b THEN 1 ELSE 0]

\* v.as.boolean: of a bool, what was stored; of another member, all-zero
\* storage reads false and anything else is whatever the build makes of it
AsBoolean(v) ==
  IF v.type = "V_BOOL" THEN {v.as # 0}
  ELSE IF v.type = "V_STRING" THEN BOOLEAN
  ELSE IF v.type = "V_CHAR" THEN (IF v.as = NUL THEN {FALSE} ELSE BOOLEAN)
  ELSE IF v.as = 0 THEN {FALSE}
  ELSE BOOLEAN

Outcome(v, exit) == [value |-> v, exit |-> exit]

Not(v) == { Outcome(NewBoolValue(~b), "") : b \in AsBoolean(v) }

LogicalAND(v1, v2) ==
  IF v1.type # "V_BOOL" \/ v2.type # "V_BOOL"
    THEN { Outcome(NoValue, "LogicalAND(): Cannot compare non-bool types") }
  ELSE IF v1.type # v2.type
    THEN { Outcome(NoValue, "LogicalAND(): Type mismatch") }
  ELSE { Outcome(NewBoolValue(b1 /\ b2), "") : b1 \in AsBoolean(v1), b2 \in AsBoolean(v2) }

\* LogicalOR with && in the place of ||
LogicalORComputingAND(v1, v2) == LogicalAND(v1, v2)

LogicalOR(v1, v2) ==
  IF v1.type # "V_BOOL" \/ v2.type # "V_BOOL"
    THEN { Outcome(NoValue, "LogicalAND(): Cannot compare non-bool types") }
  ELSE IF v1.type # v2.type
    THEN { Outcome(NoValue, "LogicalAND(): Type mismatch") }
  ELSE { Outcome(NewBoolValue(b1 \/ b2), "") : b1 \in AsBoolean(v1), b2 \in AsBoolean(v2) }

(***************************************************************************)
(* Integer literals.  The 64 bits of an int64_t or uint64_t are held as    *)
(* the number they read as an int64_t when that is within -2^31 .. 2^31-1  *)
(* (so the uint64_t 2^64 - 1 as -1), and as their 16-bit limbs, least      *)
(* significant first, otherwise: the model's own integers are 32 bits      *)
(* wide.                                                                   *)
(***************************************************************************)
BASE_DECIMAL == 10

BASE_HEX == 16

BASE_BINARY == 2

LimbBase == 65536

RECURSIVE MulAdd(_, _, _)
\* n * b + c on limbs, for c < LimbBase
MulAdd(n, b, c) ==
  IF n = <<>> THEN (IF c = 0 THEN <<>> ELSE <<c>>)
  ELSE Bind(n[1] * b + c, LAMBDA x :
         <<x % LimbBase>> \o MulAdd(Tail(n), b, x \div LimbBase))

Word(n) ==
  IF n = <<>> THEN 0
  ELSE IF Len(n) = 1 THEN n[1]
  ELSE IF Len(n) = 2 /\ n[2] < LimbBase \div 2 THEN n[2] * LimbBase + n[1]
  ELSE IF Len(n) = 4 /\ n[4] = LimbBase - 1 /\ n[3] = LimbBase - 1 /\ n[2] >= LimbBase \div 2
    THEN (n[2] - LimbBase) * LimbBase + n[1]
  ELSE n

NumeralValue(c) ==
  CASE c \in Digits -> DigitValue(c)
    [] c \in {"a", "A"} -> 10
    [] c \in {"b", "B"} -> 11
    [] c \in {"c", "C"} -> 12
    [] c \in {"d", "D"} -> 13
    [] c \in {"e", "E"} -> 14
    [] c \in {"f", "F"} -> 15
    [] OTHER -> 16

\* the digits of a literal: its lexeme without the 0x of a hex literal and
\* without the b' and the ' of a binary one
Numeral(t, base) ==
  IF base = BASE_HEX THEN SubSeq(t.lexeme, 3, Len(t.lexeme))
  ELSE IF base = BASE_BINARY THEN SubSeq(t.lexeme, 3, Len(t.lexeme) - 1)
  ELSE t.lexeme

\* the longest run of digits of the base that d begins with
DigitRun(d, base) ==
  SubSeq(d, 1, CHOOSE k \in 0..Len(d) :
                 /\ \A i \in 1..k : NumeralValue(d[i]) < base
                 /\ k = Len(d) \/ NumeralValue(d[k + 1]) >= base)

\* so many digits are decoded at a time, in the model's own integers
ChunkDigits(base) ==
  IF base = BASE_BINARY THEN 12 ELSE IF base = BASE_HEX THEN 3 ELSE 4

RECURSIVE ChunkValue(_, _)
ChunkValue(d, base) ==
  IF d = <<>> THEN 0
  ELSE ChunkValue(SubSeq(d, 1, Len(d) - 1), base) * base + NumeralValue(d[Len(d)])

RECURSIVE Power(_, _)
Power(base, k) == IF k = 0 THEN 1 ELSE base * Power(base, k - 1)

RECURSIVE Decode(_, _, _)
\* the limbs of acc * base^Len(d) + the number the digits d denote
Decode(acc, d, base) ==
  IF d = <<>> THEN acc
  ELSE Bind(IF Len(d) < ChunkDigits(base) THEN Len(d) ELSE ChunkDigits(base), LAMBDA k :
       Bind(MulAdd(acc, Power(base, k), ChunkValue(SubSeq(d, 1, k), base)), LAMBDA next :
       Bind(SubSeq(d, k + 1, Len(d)), LAMBDA rest : Decode(next, rest, base))))

Magnitude(t, base) == Decode(<<>>, DigitRun(Numeral(t, base), base), base)

Int64Overflow(t, base) ==
  Bind(Magnitude(t, base), LAMBDA n :
    Len(n) > 4 \/ (Len(n) = 4 /\ n[4] >= LimbBase \div 2))

Uint64Overflow(t, base) == Len(Magnitude(t, base)) > 4

TokenToInt64(t, base) == Word(Magnitude(t, base))

TokenToUint64(t, base) == Word(Magnitude(t, base))

(***************************************************************************)
(* A double is held as a number of halves; a literal is decoded to the     *)
(* half at or below it.                                                    *)
(***************************************************************************)
NewFloatValue(d) == [type |-> "V_FLOAT", array_type |-> 0, array_size |-> 0, as |-> d]

NewCharValue(c) == [type |-> "V_CHAR", array_type |-> 0, array_size |-> 0, as |-> c]

NewStringValue(s) == [type |-> "V_STRING", array_type |-> "V_CHAR", array_size |-> Len(s), as |-> s]

RECURSIVE WholePart(_)
WholePart(d) == IF d = <<>> \/ Head(d) \notin Digits THEN <<>> ELSE <<Head(d)>> \o WholePart(Tail(d))

DoubleOverflow(t) == Len(StripZeros(WholePart(t.lexeme))) > 309

DoubleUnderflow(t) ==
  Bind(SubSeq(t.lexeme, Len(WholePart(t.lexeme)) + 2, Len(t.lexeme)), LAMBDA fraction :
    /\ StripZeros(WholePart(t.lexeme)) = <<>>
    /\ StripZeros(fraction) # <<>>
    /\ Len(fraction) - Len(StripZeros(fraction)) > 323)

TokenToDouble(t) ==
  Bind(WholePart(t.lexeme), LAMBDA whole :
    2 * StrToL(whole)
      + (IF Len(t.lexeme) >= Len(whole) + 2 /\ NumeralValue(t.lexeme[Len(whole) + 2]) \in 5..9
           THEN 1 ELSE 0))

Valued(ps, v) == [P |-> ps, value |-> v]

Overflowed == [NoValue EXCEPT !.type = "V_OVERFLOW"]

NewValue(ps, a, t) ==
  Bind(IF t.type = "HEX_LITERAL" THEN BASE_HEX
       ELSE IF t.type = "BINARY_LITERAL" THEN BASE_BINARY
       ELSE BASE_DECIMAL, LAMBDA base :
    CASE a.actual_type = "ACT_NOT_APPLICABLE" -> Valued(ps, NoValue)
      [] a.actual_type = "ACT_INT" ->
           IF a.is_signed
             THEN IF Int64Overflow(t, base)
                    THEN Valued(ErrorAtToken(ps, t, "I64 Overflow"), Overflowed)
                    ELSE Valued(ps, NewIntValue(TokenToInt64(t, base)))
             ELSE IF Uint64Overflow(t, base)
                    THEN Valued(ErrorAtToken(ps, t, "U64 Overflow"), Overflowed)
                    ELSE Valued(ps, NewUintValue(TokenToUint64(t, base)))
      [] a.actual_type = "ACT_FLOAT" ->
           IF DoubleOverflow(t) \/ DoubleUnderflow(t)
             THEN Valued(ErrorAtToken(ps, t, "F64 Over/Underflow"), Overflowed)
             ELSE Valued(ps, NewFloatValue(TokenToDouble(t)))
      [] a.actual_type = "ACT_BOOL" ->
           Valued(ps, NewBoolValue(t.lexeme = <<"t", "r", "u", "e">>))
      [] a.actual_type = "ACT_CHAR" ->
           Valued(ps, NewCharValue(IF t.lexeme = <<>> THEN NUL ELSE t.lexeme[1]))
      [] a.actual_type = "ACT_STRING" -> Valued(ps, NewStringValue(t.lexeme))
      [] OTHER -> Valued(ErrorAndExit(ps, "NewValue(): not implemented yet"), NoValue))

(***************************************************************************)
(* Reading a member of Value.as.  The member that was stored reads as      *)
(* stored; another member reads the same bytes, which the model leaves     *)
(* open over a few values of the member's type, all-zero storage apart.    *)
(* A char or a string is held as text, a double as a number of halves.     *)
(***************************************************************************)
Punned == 0..MaxInt

Characters == {NUL, "a"}

AsInteger(v) ==
  IF v.type \in {"V_INT", "V_UINT"} THEN {v.as}
  ELSE IF v.type \in {"V_NONE", "V_FLOAT"} /\ v.as = 0 THEN {0}
  ELSE Punned

AsFloating(v) ==
  IF v.type = "V_FLOAT" THEN {v.as}
  ELSE IF v.type \in {"V_NONE", "V_INT", "V_UINT"} /\ v.as = 0 THEN {0}
  ELSE Punned

AsCharacter(v) ==
  IF v.type = "V_CHAR" THEN {v.as}
  ELSE IF v.type \in {"V_NONE", "V_INT", "V_UINT", "V_FLOAT"} /\ v.as = 0 THEN {NUL}
  ELSE Characters

\* a double result of n / d halves: the neighbouring numbers of halves when
\* it is none itself; a quotient by zero is an infinity, written 2^31 - 1,
\* and 0 / 0 is no number, written 2^31 - 2
Halves(n, d) ==
  IF d = 0 THEN (IF n = 0 THEN {2147483646} ELSE {2147483647})
  ELSE IF n % d = 0 THEN {n \div d}
  ELSE {n \div d, n \div d + 1}

\* integer division by zero is undefined: the process traps, or goes on
\* with some quotient
Quotients(b, undefined, quotient) ==
  IF b = 0 THEN {Outcome(NoValue, undefined)} \cup { Outcome(NewIntValue(q), "") : q \in Punned }
  ELSE {Outcome(quotient, "")}

AddValues(v1, v2) ==
  CASE v1.type = "V_INT" ->
         { Outcome(NewIntValue(a + b), "") : a \in AsInteger(v1), b \in AsInteger(v2) }
    [] v1.type = "V_UINT" ->
         { Outcome(NewUintValue(a + b), "") : a \in AsInteger(v1), b \in AsInteger(v2) }
    [] v1.type = "V_FLOAT" ->
         { Outcome(NewFloatValue(a + b), "") : a \in AsFloating(v1), b \in AsFloating(v2) }
    [] OTHER -> { Outcome(NoValue, "AddValues(): Invalid type") }

SubValues(v1, v2) ==
  CASE v1.type = "V_INT" ->
         { Outcome(NewIntValue(a - b), "") : a \in AsInteger(v1), b \in AsInteger(v2) }
    [] v1.type = "V_UINT" ->
         { Outcome(NewUintValue(a - b), "") : a \in AsInteger(v1), b \in AsInteger(v2) }
    [] v1.type = "V_FLOAT" ->
         { Outcome(NewFloatValue(a - b), "") : a \in AsFloating(v1), b \in AsFloating(v2) }
    [] OTHER -> { Outcome(NoValue, "SubValues(): Invalid type") }

MulValues(v1, v2) ==
  CASE v1.type = "V_INT" ->
         { Outcome(NewIntValue(a * b), "") : a \in AsInteger(v1), b \in AsInteger(v2) }
    [] v1.type = "V_UINT" ->
         { Outcome(NewUintValue(a * b), "") : a \in AsInteger(v1), b \in AsInteger(v2) }
    [] v1.type = "V_FLOAT" ->
         UNION { { Outcome(NewFloatValue(h), "") : h \in Halves(a * b, 2) } :
                   <<a, b>> \in AsFloating(v1) \X AsFloating(v2) }
    [] OTHER -> { Outcome(NoValue, "MulValues(): Invalid type") }

DivValues(v1, v2) ==
  CASE v1.type = "V_INT" ->
         UNION { Quotients(ab[2], "UNDEFINED_BEHAVIOUR DivValues(): division by zero",
                           NewIntValue(IF ab[2] = 0 THEN 0 ELSE ab[1] \div ab[2])) :
                   ab \in AsInteger(v1) \X AsInteger(v2) }
    [] v1.type = "V_UINT" ->
         UNION { Quotients(ab[2], "UNDEFINED_BEHAVIOUR DivValues(): division by zero",
                           NewUintValue(IF ab[2] = 0 THEN 0 ELSE ab[1] \div ab[2])) :
                   ab \in AsInteger(v1) \X AsInteger(v2) }
    [] v1.type = "V_FLOAT" ->
         UNION { { Outcome(NewFloatValue(h), "") : h \in Halves(2 * ab[1], ab[2]) } :
                   ab \in AsFloating(v1) \X AsFloating(v2) }
    [] OTHER -> { Outcome(NoValue, "DivValues(): Invalid type") }

ModValues(v1, v2) ==
  CASE v1.type = "V_INT" ->
         UNION { Quotients(ab[2], "UNDEFINED_BEHAVIOUR ModValues(): division by zero",
                           NewIntValue(IF ab[2] = 0 THEN 0 ELSE ab[1] % ab[2])) :
                   ab \in AsInteger(v1) \X AsInteger(v2) }
    [] v1.type = "V_UINT" ->
         UNION { Quotients(ab[2], "UNDEFINED_BEHAVIOUR ModValues(): division by zero",
                           NewUintValue(IF ab[2] = 0 THEN 0 ELSE ab[1] % ab[2])) :
                   ab \in AsInteger(v1) \X AsInteger(v2) }
    [] OTHER -> { Outcome(NoValue, "ModValues(): Invalid type") }

Equality(v1, v2) ==
  CASE v1.type = "V_INT" ->
         { Outcome(NewBoolValue(a = b), "") : a \in AsInteger(v1), b \in AsInteger(v2) }
    [] v1.type = "V_UINT" ->
         { Outcome(NewBoolValue(a = b), "") : a \in AsInteger(v1), b \in AsInteger(v2) }
    [] v1.type = "V_FLOAT" ->
         { Outcome(NewBoolValue(a = b), "") : a \in AsFloating(v1), b \in AsFloating(v2) }
    [] v1.type = "V_CHAR" ->
         { Outcome(NewBoolValue(a = b), "") : a \in AsCharacter(v1), b \in AsCharacter(v2) }
    [] v1.type = "V_BOOL" ->
         { Outcome(NewBoolValue(a = b), "") : a \in AsBoolean(v1), b \in AsBoolean(v2) }
    [] OTHER -> { Outcome(NoValue, "") }

GreaterThan(v1, v2) ==
  CASE v1.type = "V_INT" ->
         { Outcome(NewBoolValue(a > b), "") : a \in AsInteger(v1), b \in AsInteger(v2) }
    [] v1.type = "V_UINT" ->
         { Outcome(NewBoolValue(a > b), "") : a \in AsInteger(v1), b \in AsInteger(v2) }
    [] v1.type = "V_FLOAT" ->
         { Outcome(NewBoolValue(a > b), "") : a \in AsFloating(v1), b \in AsFloating(v2) }
    [] OTHER -> { Outcome(NoValue, "Invalid type passed to GreaterThan()") }

LessThan(v1, v2) ==
  CASE v1.type = "V_INT" ->
         { Outcome(NewBoolValue(a < b), "") : a \in AsInteger(v1), b \in AsInteger(v2) }
    [] v1.type = "V_UINT" ->
         { Outcome(NewBoolValue(a < b), "") : a \in AsInteger(v1), b \in AsInteger(v2) }
    [] v1.type = "V_FLOAT" ->
         { Outcome(NewBoolValue(a < b), "") : a \in AsFloating(v1), b \in AsFloating(v2) }
    [] OTHER -> { Outcome(NoValue, "Invalid type passed to LessThan()") }

(***************************************************************************)
(* The integer literals given to NewValue, as source text                  *)
(***************************************************************************)
LiteralTexts ==
  { <<"0">>,
    <<"7">>,
    <<"0","0","7">>,
    <<"1","2","7">>,
    <<"1","2","8">>,
    <<"2","5","5">>,
    <<"2","5","6">>,
    <<"3","0","0">>,
    <<"3","2","7","6","7">>,
    <<"3","2","7","6","8">>,
    <<"6","5","5","3","5">>,
    <<"6","5","5","3","6">>,
    <<"2","1","4","7","4","8","3","6","4","7">>,
    <<"2","1","4","7","4","8","3","6","4","8">>,
    <<"4","2","9","4","9","6","7","2","9","5">>,
    <<"4","2","9","4","9","6","7","2","9","6">>,
    <<"9","2","2","3","3","7","2","0","3","6","8","5","4","7","7","5","8","0","7">>,
    <<"9","2","2","3","3","7","2","0","3","6","8","5","4","7","7","5","8","0","8">>,
    <<"1","8","4","4","6","7","4","4","0","7","3","7","0","9","5","5","1","6","1","5">>,
    <<"1","8","4","4","6","7","4","4","0","7","3","7","0","9","5","5","1","6","1","6">>,
    <<"0","x","7","F">>,
    <<"0","x","8","0">>,
    <<"0","x","f","f">>,
    <<"0","x","1","2","C">>,
    <<"0","x","7","F","F","F","F","F","F","F","F","F","F","F","F","F","F","F">>,
    <<"0","x","8","0","0","0","0","0","0","0","0","0","0","0","0","0","0","0">>,
    <<"0","x","F","F","F","F","F","F","F","F","F","F","F","F","F","F","F","F">>,
    <<"0","x","F","F","F","F","F","F","F","F","F","F","F","F","F","F","F","F","F","F","F","F">>,
    <<"b","'","1","0","1","'">>,
    <<"b","'","1","1","1","1","1","1","1","1","'">>,
    <<"b","'","1","0","0","1","0","1","1","0","0","'">>,
    <<"b","'","1","1","1","1","1","1","1","1","1","1","1","1","1","1","1","1","1","1","1","1","1","1","1","1","1","1","1","1","1","1","1","1","1","1","1","1","1","1","1","1","1","1","1","1","1","1","1","1","1","1","1","1","1","1","1","1","1","1","1","1","1","1","1","'">>,
    <<"b","'","1","0","0","0","0","0","0","0","0","0","0","0","0","0","0","0","0","0","0","0","0","0","0","0","0","0","0","0","0","0","0","0","0","0","0","0","0","0","0","0","0","0","0","0","0","0","0","0","0","0","0","0","0","0","0","0","0","0","0","0","0","0","0","0","'">>,
    <<"b","'","1","1","1","1","1","1","1","1","1","1","1","1","1","1","1","1","1","1","1","1","1","1","1","1","1","1","1","1","1","1","1","1","1","1","1","1","1","1","1","1","1","1","1","1","1","1","1","1","1","1","1","1","1","1","1","1","1","1","1","1","1","1","1","1","'">> }

\* the annotations of the sized integer types
IntegerAnnotations == { AnnotateType(t) : t \in {"I8", "I16", "I32", "I64", "U8", "U16", "U32", "U64"} }

Values == { NewBoolValue(b) : b \in BOOLEAN }
            \cup { NewIntValue(i) : i \in 0..MaxInt }
            \cup { NewUintValue(u) : u \in 0..MaxInt }
            \cup { NewFloatValue(h) : h \in 0..MaxInt }
            \cup { NewCharValue("a"), NewStringValue(<<"a">>) }

(***************************************************************************)
(* The compile of one program                                              *)
(***************************************************************************)

Init ==
  /\ source \in Programs
  /\ pc = "start"
  /\ P = Unstarted
  /\ root = <<>>
  /\ operands = <<>>
  /\ applied = "none"
  /\ returned = Outcome(NoValue, "")

\* COMPILE(source) up to the call of ParserBuildAST: InitLexer, InitParser
StartCompile ==
  /\ pc = "start"
  /\ P' = InitParser(Unstarted)
  /\ pc' = "parse"
  /\ UNCHANGED <<source, root, operands, applied, returned>>

\* one iteration of the loop of ParserBuildAST
BuildStatement ==
  /\ pc = "parse"
  /\ ~NextTokenIs(P, "TOKEN_EOF")
  /\ \E s \in {Statement(P)} :
       \E q \in {IF s.P.fatal = "" /\ IsNull(s.node)
                   THEN ErrorAndExit(s.P, "ParserBuildAST(): AST could not be created")
                   ELSE s.P} :
         /\ P' = q
         /\ root' = IF q.fatal = "" THEN Append(root, s.node) ELSE root
         /\ pc' = IF q.fatal = "" THEN "parse" ELSE "aborted"
  /\ UNCHANGED <<source, operands, applied, returned>>

\* the iteration in which Match(TOKEN_EOF) succeeds: ParserBuildAST returns
BuildDone ==
  /\ pc = "parse"
  /\ NextTokenIs(P, "TOKEN_EOF")
  /\ P' = Match(P, "TOKEN_EOF").P
  /\ pc' = "parsed"
  /\ UNCHANGED <<source, root, operands, applied, returned>>

TypeCheck ==
  /\ pc = "parsed"
  /\ P' = [P EXCEPT !.errors = @ \o DisagreementsOf(root)]
  /\ pc' = "checked"
  /\ UNCHANGED <<source, root, operands, applied, returned>>

Next == StartCompile \/ BuildStatement \/ BuildDone \/ TypeCheck

Spec == Init /\ [][Next]_vars

(***************************************************************************)
(* The compile as a process that keeps running: COMPILE(source) goes from  *)
(* one step to the next for as long as there is a next step.               *)
(***************************************************************************)
FairSpec == Init /\ [][Next]_vars /\ WF_vars(Next)

(***************************************************************************)
(* The Value operations, each applied to operands of every type            *)
(***************************************************************************)
InitValue ==
  /\ source = <<>>
  /\ pc = "value"
  /\ P = Unstarted
  /\ root = <<>>
  /\ operands \in Values \X Values
  /\ applied = "none"
  /\ returned = Outcome(NoValue, "")

DoNot ==
  /\ pc = "value"
  /\ returned.exit = ""
  /\ returned' \in Not(operands[1])
  /\ applied' = "Not"
  /\ UNCHANGED <<source, pc, P, root, operands>>

DoLogicalAND ==
  /\ pc = "value"
  /\ returned.exit = ""
  /\ returned' \in LogicalAND(operands[1], operands[2])
  /\ applied' = "LogicalAND"
  /\ UNCHANGED <<source, pc, P, root, operands>>

DoLogicalOR ==
  /\ pc = "value"
  /\ returned.exit = ""
  /\ returned' \in LogicalOR(operands[1], operands[2])
  /\ applied' = "LogicalOR"
  /\ UNCHANGED <<source, pc, P, root, operands>>

DoAddValues ==
  /\ pc = "value"
  /\ returned.exit = ""
  /\ returned' \in AddValues(operands[1], operands[2])
  /\ applied' = "AddValues"
  /\ UNCHANGED <<source, pc, P, root, operands>>

DoSubValues ==
  /\ pc = "value"
  /\ returned.exit = ""
  /\ returned' \in SubValues(operands[1], operands[2])
  /\ applied' = "SubValues"
  /\ UNCHANGED <<source, pc, P, root, operands>>

DoMulValues ==
  /\ pc = "value"
  /\ returned.exit = ""
  /\ returned' \in MulValues(operands[1], operands[2])
  /\ applied' = "MulValues"
  /\ UNCHANGED <<source, pc, P, root, operands>>

DoDivValues ==
  /\ pc = "value"
  /\ returned.exit = ""
  /\ returned' \in DivValues(operands[1], operands[2])
  /\ applied' = "DivValues"
  /\ UNCHANGED <<source, pc, P, root, operands>>

DoModValues ==
  /\ pc = "value"
  /\ returned.exit = ""
  /\ returned' \in ModValues(operands[1], operands[2])
  /\ applied' = "ModValues"
  /\ UNCHANGED <<source, pc, P, root, operands>>

DoEquality ==
  /\ pc = "value"
  /\ returned.exit = ""
  /\ returned' \in Equality(operands[1], operands[2])
  /\ applied' = "Equality"
  /\ UNCHANGED <<source, pc, P, root, operands>>

DoGreaterThan ==
  /\ pc = "value"
  /\ returned.exit = ""
  /\ returned' \in GreaterThan(operands[1], operands[2])
  /\ applied' = "GreaterThan"
  /\ UNCHANGED <<source, pc, P, root, operands>>

DoLessThan ==
  /\ pc = "value"
  /\ returned.exit = ""
  /\ returned' \in LessThan(operands[1], operands[2])
  /\ applied' = "LessThan"
  /\ UNCHANGED <<source, pc, P, root, operands>>

NextValue ==
  \/ DoNot \/ DoLogicalAND \/ DoLogicalOR
  \/ DoAddValues \/ DoSubValues \/ DoMulValues \/ DoDivValues \/ DoModValues
  \/ DoEquality \/ DoGreaterThan \/ DoLessThan

SpecValue == InitValue /\ [][NextValue]_vars

(***************************************************************************)
(* The literal of a one-token source: the lexer's token for it, as the     *)
(* parser holds it after InitParser, and NewValue applied to that token    *)
(* under an annotation                                                     *)
(***************************************************************************)
InitLiteral ==
  /\ source \in { text \o <<"\n">> : text \in LiteralTexts }
  /\ pc = "lex"
  /\ P = Unstarted
  /\ root = <<>>
  /\ operands \in { <<a, ZeroToken>> : a \in IntegerAnnotations }
  /\ applied = "none"
  /\ returned = Outcome(NoValue, "")

\* InitLexer, InitParser: Parser.next is the first token of the source
LexLiteral ==
  /\ pc = "lex"
  /\ \E q \in {InitParser(Unstarted)} :
       /\ P' = q
       /\ operands' = <<operands[1], q.next>>
       /\ pc' = IF q.next.type \in LiteralTypes THEN "literal" ELSE "rejected"
  /\ UNCHANGED <<source, root, applied, returned>>

DoNewValue ==
  /\ pc = "literal"
  /\ \E v \in {NewValue(P, operands[1], operands[2])} :
       /\ P' = v.P
       /\ returned' = Outcome(v.value, v.P.fatal)
  /\ applied' = "NewValue"
  /\ pc' = "valued"
  /\ UNCHANGED <<source, root, operands>>

NextLiteral == LexLiteral \/ DoNewValue

SpecLiteral == InitLiteral /\ [][NextLiteral]_vars

(***************************************************************************)
(* The lexer on its own: ScanToken called again and again on a text.       *)
(* operands lists the tokens returned so far and root the Lexer as each    *)
(* call left it.                                                           *)
(***************************************************************************)
LexChars == {"a", "1", " ", "\n", "/", "\"", "'", "+", "-", "=", "&", "|", "~"}

MaxLen == 3

MaxTokens == 4

LexTexts == UNION { [1..n -> LexChars] : n \in 0..MaxLen }

InitLexing ==
  /\ source \in LexTexts
  /\ pc = "scan"
  /\ P = Unstarted
  /\ root = <<>>
  /\ operands = <<>>
  /\ applied = "none"
  /\ returned = Outcome(NoValue, "")

CallScanToken ==
  /\ pc \in {"scan", "rescan"}
  /\ Len(operands) < MaxTokens
  /\ \E sc \in {ScanToken(P.lexer)} :
       /\ P' = [P EXCEPT !.lexer = sc.lx]
       /\ operands' = Append(operands, sc.tok)
       /\ root' = Append(root, sc.lx)
  /\ UNCHANGED <<source, pc, applied, returned>>

(***************************************************************************)
(* strip_comments_and_whitespace: the text without its blanks, tabs,       *)
(* newlines and `//` comments; what stands between the quotes of a string  *)
(* or after the quote of a character literal is kept as it is.             *)
(***************************************************************************)
Whitespace == {" ", "\r", "\t", "\n"}

RECURSIVE StripFrom(_, _, _)
StripFrom(text, i, within) ==
  IF i > Len(text) THEN <<>>
  ELSE LET c == text[i] IN
    CASE within = "string" ->
           <<c>> \o StripFrom(text, i + 1, IF c = "\"" THEN "code" ELSE "string")
      [] within = "char" -> <<c>> \o StripFrom(text, i + 1, "closing")
      [] within = "closing" -> <<c>> \o StripFrom(text, i + 1, "code")
      [] within = "comment" ->
           StripFrom(text, i + 1, IF c = "\n" THEN "code" ELSE "comment")
      [] OTHER ->
           IF c \in Whitespace THEN StripFrom(text, i + 1, "code")
           ELSE IF c = "/" /\ i < Len(text) /\ text[i + 1] = "/"
             THEN StripFrom(text, i + 1, "comment")
           ELSE <<c>> \o StripFrom(text, i + 1,
                                   IF c = "\"" THEN "string"
                                   ELSE IF c = "'" THEN "char" ELSE "code")

Strip(text) == StripFrom(text, 1, "code")

(***************************************************************************)
(* The text has been tokenized to its EOF token: keep the text and its     *)
(* tokens, with whether a byte beyond the NUL was read for them, and       *)
(* tokenize the stripped text from the start.                              *)
(***************************************************************************)
Retokenize ==
  /\ pc = "scan"
  /\ operands # <<>>
  /\ operands[Len(operands)].type = "TOKEN_EOF"
  /\ source' = Strip(source)
  /\ pc' = "rescan"
  /\ P' = Unstarted
  /\ root' = <<>>
  /\ operands' = <<>>
  /\ applied' = "strip_comments_and_whitespace"
  /\ returned' = Outcome([text |-> source, tokens |-> operands],
                         IF P.lexer.oob THEN "UNDEFINED_BEHAVIOUR read beyond the NUL" ELSE "")

NextLexing == CallScanToken \/ Retokenize

SpecLexing == InitLexing /\ [][NextLexing]_vars

(***************************************************************************)
(* Properties                                                              *)
(***************************************************************************)
Global(ps) == ps.heap[ps.locals[1]]

ErrorsWith(msgs) == { i \in DOMAIN P.errors : P.errors[i].msg \in msgs }

\* the positions at which the text s occurs in the program
Occurrences(s) ==
  { k \in 1..(Len(source) - Len(s) + 1) : SubSeq(source, k, k + Len(s) - 1) = s }

\* C1: once the parse of the program `bool check = true;` or `bool check = false;`
\* has ended, no error has been emitted and the global table holds check in
\* state DEFINED with a bool annotation.
C1_BoolLiteralDeclaration ==
  (pc = "parsed" /\ source \in {Program(<<"bool_true">>), Program(<<"bool_false">>)})
    => /\ P.errors = <<>>
       /\ <<"c","h","e","c","k">> \in DOMAIN Global(P)
       /\ Global(P)[<<"c","h","e","c","k">>].declaration_type = "DECL_DEFINED"
       /\ Global(P)[<<"c","h","e","c","k">>].annotation.actual_type = "ACT_BOOL"

C3_BoolOperations ==
  LET a == operands[1]
      b == operands[2]
  IN /\ (applied = "Not" /\ a.type = "V_BOOL")
          => returned = Outcome(NewBoolValue(~(a.as = 1)), "")
     /\ (applied = "LogicalAND" /\ a.type = "V_BOOL" /\ b.type = "V_BOOL")
          => returned = Outcome(NewBoolValue(a.as = 1 /\ b.as = 1), "")
     /\ (applied = "LogicalOR" /\ a.type = "V_BOOL" /\ b.type = "V_BOOL")
          => returned = Outcome(NewBoolValue(a.as = 1 \/ b.as = 1), "")
     /\ (applied \in {"Not", "LogicalAND", "LogicalOR"} /\ returned.exit = "")
          => returned.value.type = "V_BOOL"

C3_Witness ==
  /\ applied = "LogicalOR"
  /\ operands = <<NewBoolValue(FALSE), NewBoolValue(TRUE)>>
  /\ returned = Outcome(NewBoolValue(TRUE), "")

\* C4: once the parse of `i32 add(i32 a, i32 b) :: i32 { return a + b; }`
\* followed by `i32 main() :: i32 { return add(1,2); }` has ended, no error
\* has been emitted, add and main are DEFINED in the global table, and the
\* call of add found its symbol DEFINED.
C4_DefinitionThenCall ==
  (pc = "parsed" /\ source = Program(<<"add", "main">>))
    => /\ P.errors = <<>>
       /\ \A f \in {<<"a","d","d">>, <<"m","a","i","n">>} :
            /\ f \in DOMAIN Global(P)
            /\ Global(P)[f].declaration_type = "DECL_DEFINED"
       /\ \A i \in DOMAIN P.calls :
            P.calls[i].token.lexeme = <<"a","d","d">> => P.calls[i].state = "DECL_DEFINED"

\* C5: every declaration by Type() of an identifier that is already in the
\* current symbol table has a redeclaration error at the new identifier token,
\* and the error carries the line of the declaration that put the name there.
C5_RedeclarationNamesFirstLine ==
  \A j \in DOMAIN P.decls :
    P.decls[j].existing =>
      \E e \in ErrorsWith({"Type(): Redeclaration of identifier"}) :
        /\ P.errors[e].token = P.decls[j].token
        /\ \A i \in 1..(j - 1) :
             (/\ ~P.decls[i].existing
              /\ P.decls[i].table = P.decls[j].table
              /\ P.decls[i].token.lexeme = P.decls[j].token.lexeme)
               => P.errors[e].line = P.decls[i].token.on_line

C5_Witness ==
  /\ source = Program(<<"decl_x", "decl_x">>)
  /\ \E e \in ErrorsWith({"Type(): Redeclaration of identifier"}) :
       /\ P.errors[e].token.on_line = 2
       /\ P.errors[e].token.lexeme = <<"x">>
       /\ P.errors[e].line = 1

\* C6: no step takes the entry of a name in a symbol table from DEFINED to
\* another declaration state.
C6_DefinedNeverReverts ==
  [][\A t \in DOMAIN P.heap : \A n \in DOMAIN P.heap[t] :
       (/\ P.heap[t][n].declaration_type = "DECL_DEFINED"
        /\ n \in DOMAIN P'.heap[t])
         => P'.heap[t][n].declaration_type = "DECL_DEFINED"]_vars

\* C7: a first bodiless declaration of f, with or without a leading type
\* keyword, leaves f DECLARED and emits no error; a declaration with a body
\* after it leaves f DEFINED and emits no error; a second bodiless
\* declaration, or a second declaration with a body, emits an error.
C7_FunctionLifecycle ==
  pc = "parsed" =>
    /\ source \in {Program(<<"fwd_f">>), Program(<<"typed_fwd_f">>)}
         => (P.errors = <<>> /\ Global(P)[<<"f">>].declaration_type = "DECL_DECLARED")
    /\ source = Program(<<"fwd_f", "def_f">>)
         => (P.errors = <<>> /\ Global(P)[<<"f">>].declaration_type = "DECL_DEFINED")
    /\ source \in {Program(<<"fwd_f", "fwd_f">>), Program(<<"def_f", "def_f">>)}
         => P.errors # <<>>

\* C8: every call parsed while its callee was undeclared, or declared but not
\* DEFINED, has an error emitted at the callee's token.
C8_CallOfUndefinedIsAnError ==
  \A c \in DOMAIN P.calls :
    P.calls[c].state # "DECL_DEFINED" =>
      \E e \in ErrorsWith({"Undeclared function", "Can't call an undefined function"}) :
        P.errors[e].token = P.calls[c].token

RECURSIVE ParamTokens(_)
\* the tokens along a chain of FUNCTION_PARAM_NODEs
ParamTokens(n) == IF IsNull(n) THEN <<>> ELSE <<n.token>> \o ParamTokens(n.left)

\* C9: every function declaration or definition whose parameter list names a
\* parameter twice has a duplicate-parameter error at the second of the two.
C9_DuplicateParameterIsAnError ==
  \A s \in DOMAIN root :
    (root[s].type \in {"FUNCTION_NODE", "DECLARATION_NODE"}
       /\ root[s].middle.type = "FUNCTION_PARAM_NODE")
      => LET ts == ParamTokens(root[s].middle)
         IN \A j, k \in DOMAIN ts :
              (j < k /\ ts[j].lexeme # <<>> /\ ts[j].lexeme = ts[k].lexeme)
                => \E e \in ErrorsWith({"FunctionParams(): Duplicate parameter name"}) :
                     P.errors[e].token = ts[k]

\* C10: between statements, no two blocks have been parsed on the same table;
\* a name declared inside a block, and not outside any, is absent from the
\* current table; and no redeclaration error is at a name declared before only
\* in other blocks.
C10_EveryBlockInItsOwnScope ==
  pc \in {"parse", "parsed"} =>
    /\ \A b1, b2 \in DOMAIN P.blocks : b1 # b2 => P.blocks[b1].table # P.blocks[b2].table
    /\ \A d \in DOMAIN P.decls :
         (/\ P.decls[d].block # 0
          /\ \A o \in DOMAIN P.decls :
               P.decls[o].token.lexeme = P.decls[d].token.lexeme => P.decls[o].block # 0)
           => P.decls[d].token.lexeme \notin DOMAIN P.heap[SYMBOL_TABLE(P)]
    /\ \A d \in DOMAIN P.decls :
         (/\ P.decls[d].block # 0
          /\ \A o \in 1..(d - 1) :
               P.decls[o].token.lexeme = P.decls[d].token.lexeme
                 => P.decls[o].block \notin {0, P.decls[d].block})
           => \A e \in ErrorsWith({"Type(): Redeclaration of identifier"}) :
                P.errors[e].token # P.decls[d].token

\* C11: BeginScope and EndScope are balanced: every call of Statement that has
\* returned left Scope.depth as it found it, Scope.depth is 0 between two
\* top-level statements and once ParserBuildAST has returned, and the process
\* never ends in EndScope's error for depth 0.
C11_ScopesBalanced ==
  /\ \A s \in DOMAIN P.stmts : P.stmts[s].after = P.stmts[s].before
  /\ pc \in {"parse", "parsed", "checked"} => P.depth = 0
  /\ P.fatal # "How'd you end scope at depth 0?"

\* an if statement with an else block has been parsed, and a statement inside
\* it began and ended at depth 1
C11_Witness ==
  /\ pc = "parsed"
  /\ \E b1, b2 \in DOMAIN P.blocks : P.blocks[b1].kind = "if" /\ P.blocks[b2].kind = "else"
  /\ \E s \in DOMAIN P.stmts : P.stmts[s].before = 1 /\ P.stmts[s].after = 1
  /\ P.freed # {}

\* the tables that are the fn_params of a symbol stored in some table
ParameterTables(ps) ==
  UNION { { ps.heap[t][x].fn_params : x \in DOMAIN ps.heap[t] } : t \in DOMAIN ps.heap }

HoldsFnParam(ps, t) ==
  \E x \in DOMAIN ps.heap[t] : ps.heap[t][x].declaration_type = "DECL_FN_PARAM"

\* C12: no table of the scope stack, Scope.locals[0..depth], holds a symbol in
\* state FN_PARAM, and every table that holds one is the parameter table of a
\* function symbol.
C12_FnParamsOnlyInParameterTables ==
  /\ \A i \in 1..(P.depth + 1) : ~HoldsFnParam(P, P.locals[i])
  /\ \A t \in DOMAIN P.heap : HoldsFnParam(P, t) => t \in ParameterTables(P)

\* a function with parameters has been parsed: its parameter table holds them
C12_Witness ==
  /\ pc = "parsed"
  /\ \E f \in DOMAIN Global(P) :
       /\ Global(P)[f].fn_params # 0
       /\ HoldsFnParam(P, Global(P)[f].fn_params)

\* C13: every symbol stored in state DEFINED, in any table, has an annotation
\* whose actual type is not ACT_NOT_APPLICABLE.
C13_DefinedHasActualType ==
  \A t \in DOMAIN P.heap : \A x \in DOMAIN P.heap[t] :
    P.heap[t][x].declaration_type = "DECL_DEFINED"
      => P.heap[t][x].annotation.actual_type # "ACT_NOT_APPLICABLE"

RECURSIVE Nodes(_)
\* the nodes of the tree under n
Nodes(n) ==
  IF IsNull(n) THEN {} ELSE {n} \cup Nodes(n.left) \cup Nodes(n.middle) \cup Nodes(n.right)

\* the spine nodes of the trees of the top-level statements; the top-level
\* spine itself is root
SpineNodes ==
  { n \in UNION { Nodes(root[s]) : s \in DOMAIN root } :
      n.type \in {"CHAIN_NODE", "FUNCTION_BODY_NODE"} }

\* C14: in the AST ParserBuildAST has returned, every top-level statement is
\* non-null, and every spine node either is the tail, with LEFT and RIGHT both
\* null, or has a statement at LEFT and the next spine node, a CHAIN node, at
\* RIGHT.
C14_ChainSpinesWellFormed ==
  pc = "parsed" =>
    /\ \A s \in DOMAIN root : ~IsNull(root[s])
    /\ \A n \in SpineNodes :
         \/ IsNull(n.left) /\ IsNull(n.right)
         \/ ~IsNull(n.left) /\ ~IsNull(n.right) /\ n.right.type = "CHAIN_NODE"

RECURSIVE Shape(_)
\* the structure of the tree under n: the type and lexeme of every node, without
\* positions and annotations
Shape(n) ==
  IF IsNull(n) THEN <<>>
  ELSE <<n.type, n.token.lexeme, Shape(n.left), Shape(n.middle), Shape(n.right)>>

\* C15: `for (i32 i = 0; i; i++) { i32 y; }` followed by
\* `i32 i = 0; while (i) { i32 y; i++; }` parses to three top-level statements:
\* the STATEMENT node of the for loop, whose LEFT has the structure of the
\* second (the initialization) and whose RIGHT has the structure of the third
\* (the WHILE node).
C15_ForIsInitThenWhile ==
  (pc = "parsed" /\ source = Program(<<"for_y", "while_post">>))
    => /\ Len(root) = 3
       /\ root[1].type = "STATEMENT_NODE"
       /\ Shape(root[1].left) = Shape(root[2])
       /\ Shape(root[1].right) = Shape(root[3])

\* n is BINARY_OP(op2) with LEFT BINARY_OP(op1) with LEFT a and RIGHT b, and
\* RIGHT c; operators and operands are given by their lexemes
LeftAssociated(n, a, op1, b, op2, c) ==
  /\ n.type = "BINARY_OP_NODE" /\ n.token.lexeme = op2
  /\ n.left.type = "BINARY_OP_NODE" /\ n.left.token.lexeme = op1
  /\ n.left.left.type = "LITERAL_NODE" /\ n.left.left.token.lexeme = a
  /\ n.left.right.type = "LITERAL_NODE" /\ n.left.right.token.lexeme = b
  /\ n.right.type = "LITERAL_NODE" /\ n.right.token.lexeme = c

\* the parse of the expression statement has returned its tree, the only
\* statement of the program, and the tree is left-associated
ParsesLeftAssociated(name, op1, op2) ==
  (pc \in {"parsed", "aborted"} /\ source = Program(<<name>>))
    => /\ pc = "parsed"
       /\ Len(root) = 1
       /\ LeftAssociated(root[1], <<"1">>, op1, <<"2">>, op2, <<"3">>)

\* C16: two binary operators of one precedence level associate to the left:
\* `1 && 2 || 3` parses as (1 && 2) || 3, `1 | 2 & 3` as (1 | 2) & 3 and
\* `1 < 2 > 3` as (1 < 2) > 3.
C16_SamePrecedenceAssociatesLeft ==
  /\ ParsesLeftAssociated("and_or", <<"&", "&">>, <<"|", "|">>)
  /\ ParsesLeftAssociated("or_and", <<"|">>, <<"&">>)
  /\ ParsesLeftAssociated("lt_gt", <<"<">>, <<">">>)

(***************************************************************************)
(* C17.  Whenever Identifier() ran with can_assign false and the token     *)
(* after the identifier was '=', the diagnostic "Cannot assign to          *)
(* identifier" was emitted at that identifier; whenever it ran with        *)
(* can_assign true, no such diagnostic was emitted at that identifier.     *)
(***************************************************************************)
CannotAssignEmitted(ps, run) ==
  \E e \in DOMAIN ps.errors :
    /\ e > run.errors
    /\ ps.errors[e].msg = "Identifier(): Cannot assign to identifier"
    /\ ps.errors[e].token = run.token

C17_AssignmentNeedsCanAssign ==
  \A k \in DOMAIN P.idents :
    /\ (~P.idents[k].can_assign /\ P.idents[k].next = "EQUALS")
         => CannotAssignEmitted(P, P.idents[k])
    /\ P.idents[k].can_assign => ~CannotAssignEmitted(P, P.idents[k])

C17_Witness ==
  /\ pc = "parsed"
  /\ \E k \in DOMAIN P.idents :
       /\ ~P.idents[k].can_assign
       /\ P.idents[k].next = "EQUALS"
       /\ CannotAssignEmitted(P, P.idents[k])
  /\ \E k \in DOMAIN P.idents :
       /\ P.idents[k].can_assign
       /\ P.idents[k].next = "EQUALS"
       /\ ~CannotAssignEmitted(P, P.idents[k])

(***************************************************************************)
(* The number a literal denotes, read off its digits without decoding it:  *)
(* the digits' values with the leading zeros dropped, compared with the    *)
(* digits of 2^bits - 1 in the same base; and the digits of a decoded      *)
(* value, by division.                                                     *)
(***************************************************************************)
BaseOf(t) ==
  IF t.type = "HEX_LITERAL" THEN BASE_HEX
  ELSE IF t.type = "BINARY_LITERAL" THEN BASE_BINARY
  ELSE BASE_DECIMAL

RECURSIVE StripLeading(_)
StripLeading(d) == IF d # <<>> /\ Head(d) = 0 THEN StripLeading(Tail(d)) ELSE d

LiteralDigits(t) ==
  StripLeading([i \in 1..Len(DigitRun(Numeral(t, BaseOf(t)), BaseOf(t))) |->
                  NumeralValue(Numeral(t, BaseOf(t))[i])])

LimitDigits(base, bits) ==
  CASE base = BASE_BINARY -> [i \in 1..bits |-> 1]
    [] base = BASE_HEX ->
         (IF bits % 4 = 0 THEN <<>> ELSE <<Power(2, bits % 4) - 1>>)
           \o [i \in 1..(bits \div 4) |-> 15]
    [] bits = 7 -> <<1,2,7>>
    [] bits = 8 -> <<2,5,5>>
    [] bits = 15 -> <<3,2,7,6,7>>
    [] bits = 16 -> <<6,5,5,3,5>>
    [] bits = 31 -> <<2,1,4,7,4,8,3,6,4,7>>
    [] bits = 32 -> <<4,2,9,4,9,6,7,2,9,5>>
    [] bits = 63 -> <<9,2,2,3,3,7,2,0,3,6,8,5,4,7,7,5,8,0,7>>
    [] bits = 64 -> <<1,8,4,4,6,7,4,4,0,7,3,7,0,9,5,5,1,6,1,5>>

Exceeds(d, limit) ==
  \/ Len(d) > Len(limit)
  \/ /\ Len(d) = Len(limit)
     /\ \E i \in 1..Len(d) : d[i] > limit[i] /\ \A j \in 1..(i - 1) : d[j] = limit[j]

RECURSIVE Trim(_)
Trim(n) == IF n # <<>> /\ n[Len(n)] = 0 THEN Trim(SubSeq(n, 1, Len(n) - 1)) ELSE n

RECURSIVE DivSmall(_, _)
\* quotient and remainder of the limbs n by b
DivSmall(n, b) ==
  IF n = <<>> THEN [q |-> <<>>, r |-> 0]
  ELSE LET hi == DivSmall(Tail(n), b)
           cur == hi.r * LimbBase + n[1]
       IN [q |-> <<cur \div b>> \o hi.q, r |-> cur % b]

RECURSIVE Encode(_, _)
\* the digits of the limbs n in the base, a chunk at a time
Encode(n, base) ==
  IF n = <<>> THEN <<>>
  ELSE LET k == ChunkDigits(base)
           dm == DivSmall(n, Power(base, k))
       IN Encode(Trim(dm.q), base)
            \o [i \in 1..k |-> (dm.r \div Power(base, k - i)) % base]

\* the digits of 2^64 - 2^31 - 1
TopDigits(base) ==
  CASE base = BASE_BINARY -> [i \in 1..64 |-> IF i = 33 THEN 0 ELSE 1]
    [] base = BASE_HEX -> [i \in 1..16 |-> IF i = 9 THEN 7 ELSE 15]
    [] OTHER -> <<1,8,4,4,6,7,4,4,0,7,1,5,6,2,0,6,7,9,6,7>>

\* the limbs of a decoded value: it is held as a number when the literal is
\* below 2^31 or above 2^64 - 2^31 - 1
LimbsOf(integer, d, base) ==
  IF ~Exceeds(d, LimitDigits(base, 31))
    THEN Trim(<<integer % LimbBase, integer \div LimbBase>>)
  ELSE IF Exceeds(d, TopDigits(base))
    THEN <<integer % LimbBase, (integer \div LimbBase) % LimbBase, LimbBase - 1, LimbBase - 1>>
  ELSE integer

OverflowReported(ps, t) ==
  \E e \in DOMAIN ps.errors :
    /\ ps.errors[e].token = t
    /\ ps.errors[e].msg \in {"I64 Overflow", "U64 Overflow"}

(***************************************************************************)
(* C18.  NewValue under an integer annotation returns V_OVERFLOW, with a   *)
(* diagnostic at the token, for every literal above 2^63-1 (signed) or     *)
(* 2^64-1 (unsigned) and for every literal above the range of the          *)
(* annotation's bit width; otherwise it returns V_INT or V_UINT holding    *)
(* the number the literal denotes.                                         *)
(***************************************************************************)
C18_NewValueDetectsOverflow ==
  pc = "valued" =>
    LET a == operands[1]
        t == operands[2]
        d == LiteralDigits(t)
        over == \/ Exceeds(d, LimitDigits(BaseOf(t), IF a.is_signed THEN 63 ELSE 64))
                \/ Exceeds(d, LimitDigits(BaseOf(t), IF a.is_signed THEN a.bit_width - 1
                                                                     ELSE a.bit_width))
    IN IF over
         THEN returned.value.type = "V_OVERFLOW" /\ OverflowReported(P, t)
         ELSE /\ returned.value.type = (IF a.is_signed THEN "V_INT" ELSE "V_UINT")
              /\ ~OverflowReported(P, t)
              /\ StripLeading(Encode(LimbsOf(returned.value.as, d, BaseOf(t)), BaseOf(t))) = d

(***************************************************************************)
(* C19.  The source text 0xFFFFFFFFFFFFFFFFFFFF, processed as a u64        *)
(* literal, is not rejected by the lexer: its token reaches NewValue,      *)
(* which reports "U64 Overflow" at it and returns V_OVERFLOW.              *)
(***************************************************************************)
HexTwentyDigits == <<"0", "x">> \o [i \in 1..20 |-> "F"]

C19_HexTwentyDigitsReachesNewValue ==
  (source = HexTwentyDigits \o <<"\n">> /\ operands[1] = AnnotateType("U64")) =>
    /\ pc # "rejected"
    /\ pc = "valued" =>
         /\ returned.value.type = "V_OVERFLOW"
         /\ \E e \in DOMAIN P.errors :
              P.errors[e].token = operands[2] /\ P.errors[e].msg = "U64 Overflow"

(***************************************************************************)
(* C20.  Every Value operation applied to operands whose kinds it does     *)
(* not support, or whose kinds differ, ends in the fatal internal error    *)
(* and returns no Value.                                                   *)
(***************************************************************************)
Supports(operation, type) ==
  CASE operation \in {"AddValues", "SubValues", "MulValues", "DivValues",
                      "GreaterThan", "LessThan"} -> type \in {"V_INT", "V_UINT", "V_FLOAT"}
    [] operation = "ModValues" -> type \in {"V_INT", "V_UINT"}
    [] operation = "Equality" -> type \in {"V_INT", "V_UINT", "V_FLOAT", "V_CHAR", "V_BOOL"}
    [] operation \in {"Not", "LogicalAND", "LogicalOR"} -> type = "V_BOOL"
    [] OTHER -> TRUE

IllTyped(operation, v1, v2) ==
  IF operation = "Not" THEN ~Supports(operation, v1.type)
  ELSE ~Supports(operation, v1.type) \/ ~Supports(operation, v2.type) \/ v1.type # v2.type

C20_IllTypedOperationIsFatal ==
  (applied # "none" /\ IllTyped(applied, operands[1], operands[2])) => returned.exit # ""

(***************************************************************************)
(* What the lexer-only specification records: the Lexer before the k-th    *)
(* call of ScanToken, and the text from position i to the end of input.    *)
(***************************************************************************)
LexerBefore(k) == IF k = 1 THEN InitLexer ELSE root[k - 1]

Rest(i) == {Mem(j) : j \in i..Len(source)}

(***************************************************************************)
(* C21.  A `"` that opens a string not closed before the end of input      *)
(* makes ScanToken return the ERROR token "Unterminated string." without   *)
(* reading a byte beyond the terminating NUL; a string with a newline      *)
(* before its closing quote makes it return the ERROR token for a          *)
(* multi-line string.                                                      *)
(***************************************************************************)
C21_UnterminatedStringIsError ==
  \A k \in DOMAIN operands :
    LET s == root[k].start IN
    (~LexerBefore(k).oob /\ Mem(s) = "\"") =>
      /\ "\"" \notin Rest(s + 1) /\ "\n" \notin Rest(s + 1) =>
           /\ operands[k].type = "ERROR"
           /\ operands[k].lexeme = <<"Unterminated string.">>
           /\ ~root[k].oob
      /\ (\E n \in (s + 1)..Len(source) :
            Mem(n) = "\n" /\ "\"" \notin {Mem(j) : j \in (s + 1)..(n - 1)}) =>
           /\ operands[k].type = "ERROR"
           /\ operands[k].lexeme = <<"Multi-line strings are not allowed">>

(***************************************************************************)
(* The two-character operators and the token kind of each.                 *)
(***************************************************************************)
DoubledOperators == {"=", "&", "|", "+", "-"}

DoubledKind(c) ==
  CASE c = "=" -> "EQUALITY"
    [] c = "&" -> "LOGICAL_AND"
    [] c = "|" -> "LOGICAL_OR"
    [] c = "+" -> "PLUS_PLUS"
    [] c = "-" -> "MINUS_MINUS"

(***************************************************************************)
(* C22.  Where a token starts at `==`, `&&`, `||`, `++` or `--`, ScanToken  *)
(* returns one token of that operator's kind whose lexeme is the pair; a   *)
(* token of one of these kinds never has another lexeme; and a token that  *)
(* starts at `~` is the bitwise-not token.                                 *)
(***************************************************************************)
C22_TwoCharacterOperators ==
  \A k \in DOMAIN operands :
    LET s == root[k].start
        t == operands[k]
    IN ~LexerBefore(k).oob =>
         /\ \A c \in DoubledOperators :
              /\ (Mem(s) = c /\ Mem(s + 1) = c) =>
                   TokenType(t.type) = DoubledKind(c) /\ t.lexeme = <<c, c>>
              /\ TokenType(t.type) = DoubledKind(c) => t.lexeme = <<c, c>>
         /\ Mem(s) = "~" => TokenType(t.type) = "BITWISE_NOT" /\ t.lexeme = <<"~">>

(***************************************************************************)
(* C23.  Once a call of ScanToken has returned the EOF token, every later  *)
(* call returns the EOF token and leaves Lexer.start, Lexer.end and        *)
(* Lexer.current_line as that call left them.                              *)
(***************************************************************************)
C23_EOFIsIdempotent ==
  \A k \in DOMAIN operands : \A j \in DOMAIN operands :
    (k < j /\ operands[k].type = "TOKEN_EOF") =>
      /\ operands[j].type = "TOKEN_EOF"
      /\ operands[j].lexeme = <<>>
      /\ root[j] = root[k]

C23_Witness ==
  /\ Len(operands) >= 4
  /\ operands[1].type = "IDENTIFIER"
  /\ operands[2].type = "TOKEN_EOF"
  /\ operands[4].type = "TOKEN_EOF"
  /\ root[2].current_line = 2
  /\ ~root[4].oob

(***************************************************************************)
(* The kinds and lexemes of a token stream.                                *)
(***************************************************************************)
KindsAndLexemes(tokens) ==
  [k \in DOMAIN tokens |-> <<tokens[k].type, tokens[k].lexeme>>]

(***************************************************************************)
(* C24.  Tokenizing strip_comments_and_whitespace(P) and tokenizing P give *)
(* the same sequence of token kinds and lexemes, each by reads inside the  *)
(* text and its NUL.                                                       *)
(***************************************************************************)
C24_StrippingKeepsTokens ==
  (/\ pc = "rescan"
   /\ operands # <<>>
   /\ operands[Len(operands)].type = "TOKEN_EOF") =>
     /\ returned.exit = ""
     /\ ~P.lexer.oob
     /\ KindsAndLexemes(operands) = KindsAndLexemes(returned.value.tokens)

(***************************************************************************)
(* C29.  Whatever the text and however often ScanToken is called,          *)
(* Lexer.end stays at or before the terminating NUL: no call moves it      *)
(* beyond, not in a `//` comment that runs to the end of input and not at  *)
(* a `'` that is the last or the second-to-last character.                 *)
(***************************************************************************)
C29_ReadPositionWithinSource ==
  \A k \in DOMAIN root :
    /\ root[k].end <= Len(source) + 1
    /\ ~root[k].oob

(***************************************************************************)
(* C25.  After an assignment `x = e` parsed without error, the symbol that *)
(* Identifier()'s lookup resolved for x, in the current table or in the    *)
(* nearest enclosing scope, is DEFINED, and stays so once the scope that   *)
(* holds the assignment has ended (here: until the name occurs again).     *)
(***************************************************************************)
C25_AssignmentDefinesResolvedSymbol ==
  (pc \in {"parse", "parsed"} /\ P.fatal = "" /\ P.errors = <<>>) =>
    \A k \in DOMAIN P.idents :
      LET e == P.idents[k] IN
      (/\ e.next = "EQUALS"
       /\ e.can_assign
       /\ e.resolved # 0
       /\ e.resolved \notin P.freed
       /\ ~\E j \in DOMAIN P.idents :
            j > k /\ P.idents[j].token.lexeme = e.token.lexeme) =>
         /\ e.token.lexeme \in DOMAIN P.heap[e.resolved]
         /\ P.heap[e.resolved][e.token.lexeme].declaration_type = "DECL_DEFINED"

(***************************************************************************)
(* C26.  A statement of the form `(c) ? a : b` is lexed and parsed without *)
(* any diagnostic into an IF node whose children are c, a and b (here the  *)
(* program's first statement, `(1) ? 2 : 3;`).                             *)
(***************************************************************************)
C26_TernaryIsIfNode ==
  (/\ Len(source) >= Len(Snippet("ternary"))
   /\ SubSeq(source, 1, Len(Snippet("ternary"))) = Snippet("ternary")
   /\ pc \in {"parse", "parsed", "aborted"}
   /\ (pc = "aborted" \/ Len(root) >= 1)) =>
     /\ pc # "aborted"
     /\ \A e \in DOMAIN P.errors : P.errors[e].token.on_line # 1
     /\ root[1].type = "IF_NODE"
     /\ root[1].left.token.lexeme = <<"1">>
     /\ root[1].middle.token.lexeme = <<"2">>
     /\ root[1].right.token.lexeme = <<"3">>

(***************************************************************************)
(* C27.  Shadow and unshadow are paired around struct bodies and function  *)
(* bodies: the shadow slot is empty between top-level statements, and      *)
(* every statement, whatever bodies it holds, returns with the shadowed    *)
(* table it was called with, so that the statements after a nested body    *)
(* still see the enclosing function's parameter table.                     *)
(***************************************************************************)
C27_ShadowIsPaired ==
  /\ (pc \in {"parse", "parsed", "checked"} /\ P.fatal = "") => P.shadowed_symbol_table = 0
  /\ \A s \in DOMAIN P.stmts : P.stmts[s].shadowed_after = P.stmts[s].shadowed_before

(***************************************************************************)
(* A loop of the parser has gone through an iteration that consumed no     *)
(* token: the iteration repeats for ever and ParserBuildAST never returns. *)
(***************************************************************************)
NeverReturns ==
  P.fatal \in {"NEVER_RETURNS EnumBlock", "NEVER_RETURNS FunctionParams",
               "NEVER_RETURNS FunctionCall"}

(***************************************************************************)
(* C28.  ParserBuildAST terminates on every program: it returns, or        *)
(* aborts with a fatal error, and no loop of the parser repeats an         *)
(* iteration without consuming a token.                                    *)
(***************************************************************************)
C28_ParserBuildASTTerminates ==
  <>(/\ pc \in {"parsed", "checked", "aborted"}
     /\ ~NeverReturns)

(***************************************************************************)
(* C30.  Whatever the nesting of if and else-if blocks, Scope.depth stays  *)
(* within 0..9 and no access Scope.locals[Scope.depth] falls outside the   *)
(* array of ten.                                                           *)
(***************************************************************************)
C30_ScopeDepthWithinLocals ==
  /\ P.depth \in 0..(ScopeSlots - 1)
  /\ Len(P.locals) <= ScopeSlots
  /\ P.fatal # "UNDEFINED_BEHAVIOUR Scope.locals overrun"

====
